---- MODULE Spec2Model ----
(***************************************************************************)
(* A model of the iridium-oxide MCTS engine: the flat node arena           *)
(* (searchtree.rs, treenode.rs), the PUCT child selector (ucb.rs), the     *)
(* search driver (mcts.rs), the TicTacToe game it is instantiated with     *)
(* (tictactoe.rs, games/tictactoe.rs) and Connect4 (connectfour.rs).       *)
(***************************************************************************)
EXTENDS Integers, Sequences, FiniteSets, TLC

(***************************************************************************)
(* Bounds of the model.                                                    *)
(***************************************************************************)
\* largest iteration count a Limit::Rollouts(n) of the model holds
MaxRollouts == 8
\* largest iteration count of the searches a second engine repeats
MaxTwinRollouts == 2
\* largest number of messages waiting in the stdin channel
MaxMessages == 1
\* largest iteration count of the searches with root_parallelism_count > 1
MaxParallelRollouts == 2
\* largest capacity of the arenas SearchTree::with_capacity is called for
MaxCapacity == 6
\* largest moves of a RandomCutoff or DecisiveCutoff rollout policy
MaxCutoff == 2
\* largest rollouts of a MetaAggregated rollout policy
MaxMetaRollouts == 2
\* the entries added to a GameRecord
MaxEntries == 2
\* largest number of discs pushed on a Connect4 board
MaxC4Moves == 5

(***************************************************************************)
(* Program constants (constants.rs).                                       *)
(***************************************************************************)
WIN_SCORE == 10
ROOT_IDX == 0
INF == 2147483647
N_INF == -INF
\* `N_INF as f32`: the f32 nearest to -2147483647 is -2147483648.0
NInfF32 == N_INF - 1
\* Option::None of a node's parent
None == -1

(***************************************************************************)
(* TicTacToe (tictactoe.rs).  board[0] and board[1] are bit sets over the  *)
(* squares; they are modelled as the sets x and o of the set bits.         *)
(***************************************************************************)
Squares == 0..8

\* TicTacToe::new
NewBoard == [x |-> {}, o |-> {}, moves |-> 0]

\* Game::turn
Turn(b) == IF b.moves % 2 = 0 THEN 1 ELSE -1

\* probe_spot: the square is occupied by board[(moves + 1) & 1]
ProbeSpot(b, spot) == spot \in (IF (b.moves + 1) % 2 = 0 THEN b.x ELSE b.o)

\* the lines evaluate tests: two diagonals, three rows, three columns
Lines == {{0, 4, 8}, {2, 4, 6}}
           \cup {{i * 3, i * 3 + 1, i * 3 + 2} : i \in 0..2}
           \cup {{i, i + 3, i + 6} : i \in 0..2}

\* Game::evaluate returning self.turn() where the source returns -self.turn()
EvaluateForSideToMove(b) == IF \E l \in Lines : \A s \in l : ProbeSpot(b, s)
                            THEN Turn(b)
                            ELSE 0

\* Game::evaluate
Evaluate(b) == IF \E l \in Lines : \A s \in l : ProbeSpot(b, s)
               THEN -Turn(b)
               ELSE 0

\* Game::is_terminal
IsTerminal(b) == b.moves = 9 \/ Evaluate(b) # 0

\* the ascending sequence of the elements of a finite set of integers
RECURSIVE Ascending(_)
Ascending(S) == IF S = {} THEN <<>>
                ELSE LET m == CHOOSE e \in S : \A f \in S : e <= f
                     IN <<m>> \o Ascending(S \ {m})

\* Game::generate_moves into a default buffer: the empty squares, lowest
\* set bit first (trailing_zeros, then clear the lowest set bit)
GenerateMoves(b) == Ascending(Squares \ (b.x \cup b.o))

\* Game::push
Push(b, m) == IF b.moves % 2 = 0
              THEN [b EXCEPT !.x = @ \cup {m}, !.moves = @ + 1]
              ELSE [b EXCEPT !.o = @ \cup {m}, !.moves = @ + 1]

\* Game::push_random: the states one uniformly drawn empty square leads to
PushRandom(b) == {Push(b, m) : m \in Squares \ (b.x \cup b.o)}

(***************************************************************************)
(* Node (treenode.rs) and the arena (searchtree.rs).  The arena `nodes` is *)
(* a function from 0..len-1 to nodes, so that indices are the source's.     *)
(***************************************************************************)
\* G::Move::default(), the root's inbound edge
DefaultMove == 9

\* capacity the engine's arena is created with
NODEPOOL_SIZE == 100000000

ArenaLen(nodes) == Cardinality(DOMAIN nodes)

\* Node::new keeping the turn handed in as the perspective
NewNodeKeepsTurn(turn, parent, inbound_edge) ==
    [first_child |-> 0, n_children |-> 0, parent |-> parent,
     value |-> 0, visits |-> 0, perspective |-> turn,
     inbound_edge |-> inbound_edge]

\* Node::new as SearchTree calls it: perspective is minus the turn handed in
NewNode(turn, parent, inbound_edge) ==
    [first_child |-> 0, n_children |-> 0, parent |-> parent,
     value |-> 0, visits |-> 0, perspective |-> -turn,
     inbound_edge |-> inbound_edge]

\* Node::children, as the set of the indices of the range
Children(node) == node.first_child .. (node.first_child + node.n_children - 1)

\* Node::has_children
HasChildren(node) == node.n_children > 0

\* f32 addition of a backpropagated amount (at most WIN_SCORE) to a value:
\* exact on the small integers, absorbed by -2147483648.0 (spacing 128)
F32Add(value, amount) == IF value = NInfF32 THEN NInfF32 ELSE value + amount

\* Node::update adding q * perspective unshifted, without the map to [0, WIN_SCORE]
UpdateUnshifted(node, q) ==
    [node EXCEPT !.visits = @ + 1,
                 !.value = F32Add(@, q * node.perspective * WIN_SCORE)]

\* Node::update adding (q + 1) / 2 * WIN_SCORE whatever the perspective of
\* the node is
UpdateIgnoresPerspective(node, q) ==
    [node EXCEPT !.visits = @ + 1,
                 !.value = F32Add(@, ((q + 1) * WIN_SCORE) \div 2)]

\* Node::update negating the perspective of the node it updates
UpdateFlipsPerspective(node, q) ==
    [node EXCEPT !.visits = @ + 1,
                 !.value = F32Add(@, ((q * node.perspective + 1) * WIN_SCORE) \div 2),
                 !.perspective = -@]

\* Node::update for q in {-1, 0, 1}
Update(node, q) ==
    [node EXCEPT !.visits = @ + 1,
                 !.value = F32Add(@, ((q * node.perspective + 1) * WIN_SCORE) \div 2)]

\* Node::set_win_score
SetWinScore(node, score) == [node EXCEPT !.value = score]

\* Node::win_rate, as the fraction num / den
WinRate(node) == IF node.visits = 0
                 THEN [num |-> 0, den |-> 1]
                 ELSE [num |-> node.value, den |-> node.visits * WIN_SCORE]

\* SearchTree::setup handing Node::new minus the turn of the root
SetupNodesTurnNegated(board) ==
    [i \in {ROOT_IDX} |-> NewNode(-Turn(board), None, DefaultMove)]

\* SearchTree::setup: the arena holding the root alone
SetupNodes(board) == [i \in {ROOT_IDX} |-> NewNode(Turn(board), None, DefaultMove)]

\* SearchTree::expand leaving out node.add_children(start, count)
ExpandForgetsChildren(nodes, capacity, idx, movegen_board) ==
    LET start == ArenaLen(nodes)
        move_buffer == GenerateMoves(movegen_board)
        count == Len(move_buffer)
    IN IF HasChildren(nodes[idx]) \/ start + count > capacity
       THEN [ok |-> FALSE, error |-> "panic", nodes |-> nodes]
       ELSE [ok |-> TRUE, error |-> "none",
             nodes |-> [i \in 0..(start + count - 1) |->
                          IF i < start
                          THEN nodes[i]
                          ELSE NewNode(-Turn(movegen_board), idx,
                                       move_buffer[i - start + 1])]]

\* SearchTree::expand testing for a full arena one push late
ExpandOneTooMany(nodes, capacity, idx, movegen_board) ==
    LET start == ArenaLen(nodes)
        move_buffer == GenerateMoves(movegen_board)
        count == Len(move_buffer)
    IN IF HasChildren(nodes[idx])
       THEN [ok |-> FALSE, error |-> "Node already has children", nodes |-> nodes]
       ELSE IF start + count > capacity + 1
       THEN [ok |-> FALSE, error |-> "SearchTree full",
             nodes |-> [i \in 0..capacity |->
                          IF i < start
                          THEN nodes[i]
                          ELSE NewNode(-Turn(movegen_board), idx,
                                       move_buffer[i - start + 1])]]
       ELSE [ok |-> TRUE, error |-> "none",
             nodes |-> [i \in 0..(start + count - 1) |->
                          IF i = idx
                          THEN [nodes[i] EXCEPT !.first_child = start,
                                                !.n_children = count]
                          ELSE IF i < start
                          THEN nodes[i]
                          ELSE NewNode(-Turn(movegen_board), idx,
                                       move_buffer[i - start + 1])]]

\* SearchTree::expand pushing no child for the first move of the buffer
ExpandSkipsFirstMove(nodes, capacity, idx, movegen_board) ==
    LET start == ArenaLen(nodes)
        move_buffer == Tail(GenerateMoves(movegen_board))
        count == Len(move_buffer)
    IN IF HasChildren(nodes[idx])
       THEN [ok |-> FALSE, error |-> "Node already has children", nodes |-> nodes]
       ELSE [ok |-> TRUE, error |-> "none",
             nodes |-> [i \in 0..(start + count - 1) |->
                          IF i = idx
                          THEN [nodes[i] EXCEPT !.first_child = start,
                                                !.n_children = count]
                          ELSE IF i < start
                          THEN nodes[i]
                          ELSE NewNode(-Turn(movegen_board), idx,
                                       move_buffer[i - start + 1])]]

\* SearchTree::expand with a changed parent link of the children pushed
\* (chained: each child but the last names the next child as its parent) or
\* a changed call node.add_children(start, count + extra)
ExpandVariant(nodes, capacity, idx, movegen_board, chained, extra) ==
    LET start == ArenaLen(nodes)
        move_buffer == GenerateMoves(movegen_board)
        count == Len(move_buffer)
        ParentOf(i) == IF chained /\ i < start + count - 1 THEN i + 1 ELSE idx
        Pushed(i) == [NewNode(-Turn(movegen_board), idx, move_buffer[i - start + 1])
                         EXCEPT !.parent = ParentOf(i)]
    IN IF HasChildren(nodes[idx])
       THEN [ok |-> FALSE, error |-> "Node already has children", nodes |-> nodes]
       ELSE IF start + count > capacity
       THEN [ok |-> FALSE, error |-> "SearchTree full",
             nodes |-> [i \in 0..(capacity - 1) |->
                          IF i < start THEN nodes[i] ELSE Pushed(i)]]
       ELSE [ok |-> TRUE, error |-> "none",
             nodes |-> [i \in 0..(start + count - 1) |->
                          IF i = idx
                          THEN [nodes[i] EXCEPT !.first_child = start,
                                                !.n_children = count + extra]
                          ELSE IF i < start THEN nodes[i] ELSE Pushed(i)]]

\* SearchTree::expand pushing Node::new(.., Some(next index), ..) for every
\* child but the last
ExpandChainsChildren(nodes, capacity, idx, movegen_board) ==
    ExpandVariant(nodes, capacity, idx, movegen_board, TRUE, 0)

\* SearchTree::expand calling node.add_children(start, count + 1)
ExpandRangeOneLong(nodes, capacity, idx, movegen_board) ==
    ExpandVariant(nodes, capacity, idx, movegen_board, FALSE, 1)

\* SearchTree::expand.  ok is FALSE when the call panics: on a node that has
\* children already, or with "SearchTree full" when a move is left to push
\* and nodes.len() = capacity; the nodes pushed before that stay in the
\* arena, and the child range of the node is not set.
Expand(nodes, capacity, idx, movegen_board) ==
    LET start == ArenaLen(nodes)
        move_buffer == GenerateMoves(movegen_board)
        count == Len(move_buffer)
    IN IF HasChildren(nodes[idx])
       THEN [ok |-> FALSE, error |-> "Node already has children", nodes |-> nodes]
       ELSE IF start + count > capacity
       THEN [ok |-> FALSE, error |-> "SearchTree full",
             nodes |-> [i \in 0..(capacity - 1) |->
                          IF i < start
                          THEN nodes[i]
                          ELSE NewNode(-Turn(movegen_board), idx,
                                       move_buffer[i - start + 1])]]
       ELSE [ok |-> TRUE, error |-> "none",
             nodes |-> [i \in 0..(start + count - 1) |->
                          IF i = idx
                          THEN [nodes[i] EXCEPT !.first_child = start,
                                                !.n_children = count]
                          ELSE IF i < start
                          THEN nodes[i]
                          ELSE NewNode(-Turn(movegen_board), idx,
                                       move_buffer[i - start + 1])]]

\* SearchTree::root_rollout_distribution over a range that starts one late
RootRolloutDistributionSkipsFirst(nodes) ==
    [k \in 1..(nodes[ROOT_IDX].n_children - 1) |->
        nodes[nodes[ROOT_IDX].first_child + k].visits]

\* SearchTree::root_rollout_distribution
RootRolloutDistribution(nodes) ==
    [k \in 1..nodes[ROOT_IDX].n_children |->
        nodes[nodes[ROOT_IDX].first_child + k - 1].visits]

\* the state a node stands for: the root state with the inbound edges from
\* the root to the node pushed in order
RECURSIVE StateOf(_, _, _)
StateOf(nodes, root, idx) ==
    IF nodes[idx].parent = None THEN root
    ELSE Push(StateOf(nodes, root, nodes[idx].parent), nodes[idx].inbound_edge)

(***************************************************************************)
(* The child selector (ucb.rs).  Scores are f32 in the source; the model   *)
(* keeps them as exact fractions in units of 1 / ScoreScale, scaled by the *)
(* sum of the priors of the siblings.                                      *)
(***************************************************************************)
ScoreScale == 10000

\* Game::policy: the unnormalised prior of a child, 1 by default
Policy == 1

\* the normalised prior of one of n siblings, policy / sum, as a fraction
NormalisedPolicy(n) == [num |-> Policy, den |-> n * Policy]

\* fastapprox::faster::ln((parent_visits + 1.8 + 1.0) / 1.8) * sqrt(parent_visits),
\* evaluated in f32 and rounded to units of 1 / ScoreScale
PbCBase(parent_visits) ==
    CASE parent_visits = 0 -> 0
      [] parent_visits = 1 -> 7714
      [] parent_visits = 2 -> 13632
      [] parent_visits = 3 -> 20030
      [] parent_visits = 4 -> 26980
      [] parent_visits = 5 -> 33178
      [] parent_visits = 6 -> 38703
      [] parent_visits = 7 -> 44351
      [] parent_visits = 8 -> 50136
      [] parent_visits = 9 -> 56066
      [] parent_visits = 10 -> 62143
      [] OTHER -> 68369

\* f32::NEG_INFINITY, the initial best_value of best
NegInfinity == [kind |-> "neg_infinity", num |-> 0, den |-> 1]

\* puct returning the prior score alone, value_score left out of the sum
PuctPriorOnly(parent_visits, q_value, visits, policy) ==
    IF visits = 0
    THEN [kind |-> "unvisited", num |-> 0, den |-> 1]
    ELSE [kind |-> "finite",
          num |-> PbCBase(parent_visits) * visits * policy.num,
          den |-> visits * (visits + 1)]

\* puct scoring an unvisited child 0.0 in place of NODE_UNVISITED_VALUE
PuctUnvisitedZero(parent_visits, q_value, visits, policy) ==
    IF visits = 0
    THEN [kind |-> "finite", num |-> 0, den |-> 1]
    ELSE IF q_value = NInfF32
    THEN [kind |-> "sentinel", num |-> visits, den |-> 1]
    ELSE [kind |-> "finite",
          num |-> PbCBase(parent_visits) * visits * policy.num
                    + policy.den * q_value * ScoreScale * (visits + 1),
          den |-> visits * (visits + 1)]

\* puct: the score of a child whose normalised prior is policy.
\*   visits = 0: NODE_UNVISITED_VALUE;
\*   q_value = -2147483648.0: the f32 sum is q_value / visits, the prior
\*     score being absorbed by rounding, so it is ordered by visits;
\*   otherwise prior_score + value_score
\*     = num / (den * policy.den * ScoreScale).
Puct(parent_visits, q_value, visits, policy) ==
    IF visits = 0
    THEN [kind |-> "unvisited", num |-> 0, den |-> 1]
    ELSE IF q_value = NInfF32
    THEN [kind |-> "sentinel", num |-> visits, den |-> 1]
    ELSE [kind |-> "finite",
          num |-> PbCBase(parent_visits) * visits * policy.num
                    + policy.den * q_value * ScoreScale * (visits + 1),
          den |-> visits * (visits + 1)]

ScoreRank(score) == CASE score.kind = "neg_infinity" -> 0
                      [] score.kind = "sentinel" -> 1
                      [] score.kind = "finite" -> 2
                      [] OTHER -> 3

\* value > best_value on two scores
ScoreGreater(a, b) ==
    \/ ScoreRank(a) > ScoreRank(b)
    \/ /\ ScoreRank(a) = ScoreRank(b)
       /\ a.kind \in {"sentinel", "finite"}
       /\ a.num * b.den > b.num * a.den

\* the loop of best taking a child whenever best_value is not greater, as
\* max_by_key does
RECURSIVE BestLoopKeepsLast(_, _, _, _, _, _)
BestLoopKeepsLast(nodes, first, n, parent_visits, i, best) ==
    IF i = n THEN best.index
    ELSE LET node == nodes[first + i]
             value == Puct(parent_visits, node.value, node.visits,
                           NormalisedPolicy(n))
         IN IF ~ScoreGreater(best.value, value)
            THEN BestLoopKeepsLast(nodes, first, n, parent_visits, i + 1,
                                   [value |-> value, index |-> i])
            ELSE BestLoopKeepsLast(nodes, first, n, parent_visits, i + 1, best)

\* the loop of best over the children slice, from position i (0-based) on
RECURSIVE BestLoop(_, _, _, _, _, _)
BestLoop(nodes, first, n, parent_visits, i, best) ==
    IF i = n THEN best.index
    ELSE LET node == nodes[first + i]
             value == Puct(parent_visits, node.value, node.visits,
                           NormalisedPolicy(n))
         IN IF ScoreGreater(value, best.value)
            THEN BestLoop(nodes, first, n, parent_visits, i + 1,
                          [value |-> value, index |-> i])
            ELSE BestLoop(nodes, first, n, parent_visits, i + 1, best)

\* ucb::best on the children of nodes[idx]: the position in the slice
Best(nodes, idx) ==
    BestLoop(nodes, nodes[idx].first_child, nodes[idx].n_children,
             nodes[idx].visits, 0, [value |-> NegInfinity, index |-> 0])

(***************************************************************************)
(* The search driver (mcts.rs).                                            *)
(***************************************************************************)
\* search_info.side: set by MCTS::new and assigned nowhere else
SearchInfoSide == 1

\* MCTS::select returning the node it starts at, without the descent
SelectStaysAtStart(nodes, idx, state, path) ==
    [idx |-> idx, state |-> state, path |-> path]

\* MCTS::select descending without state.push(node.inbound_edge())
RECURSIVE SelectWithoutPush(_, _, _, _)
SelectWithoutPush(nodes, idx, state, path) ==
    IF HasChildren(nodes[idx])
    THEN LET child == Best(nodes, idx) + nodes[idx].first_child
         IN SelectWithoutPush(nodes, child, state, Append(path, child))
    ELSE [idx |-> idx, state |-> state, path |-> path]

\* MCTS::select: the node reached, the traversing state, and the nodes
\* descended into, in order
RECURSIVE Select(_, _, _, _)
Select(nodes, idx, state, path) ==
    IF HasChildren(nodes[idx])
    THEN LET child == Best(nodes, idx) + nodes[idx].first_child
         IN Select(nodes, child, Push(state, nodes[child].inbound_edge),
                   Append(path, child))
    ELSE [idx |-> idx, state |-> state, path |-> path]

\* MCTS::backprop leaving the loop before the parentless node is updated
RECURSIVE BackpropSkipsRoot(_, _, _)
BackpropSkipsRoot(nodes, node_idx, q) ==
    IF nodes[node_idx].parent = None THEN nodes
    ELSE BackpropSkipsRoot([nodes EXCEPT ![node_idx] = Update(@, q)],
                           nodes[node_idx].parent, q)

\* MCTS::backprop updating the start node only, without the walk up
BackpropLeafOnly(nodes, node_idx, q) ==
    [nodes EXCEPT ![node_idx] = Update(@, q)]

\* MCTS::backprop
RECURSIVE Backprop(_, _, _)
Backprop(nodes, node_idx, q) ==
    LET updated == [nodes EXCEPT ![node_idx] = Update(@, q)]
    IN IF nodes[node_idx].parent = None THEN updated
       ELSE Backprop(updated, nodes[node_idx].parent, q)

\* MCTS::random_rollout: the results the random playout can return
RECURSIVE RandomRollout(_)
RandomRollout(playout_board) ==
    IF IsTerminal(playout_board) THEN {Evaluate(playout_board)}
    ELSE UNION {RandomRollout(b) : b \in PushRandom(playout_board)}

\* the test for immediate loss at the head of MCTS::simulate
ImmediateLoss(rollout_board) == Evaluate(rollout_board) = -SearchInfoSide

\* MCTS::simulate: the outcomes [panic, nodes, q, fired] it can have
Simulate(nodes, node_idx, rollout_board) ==
    IF ImmediateLoss(rollout_board)
    THEN IF nodes[node_idx].parent = None
         THEN {[panic |-> TRUE, nodes |-> nodes, q |-> 0, fired |-> TRUE]}
         ELSE {[panic |-> FALSE,
                nodes |-> [nodes EXCEPT ![nodes[node_idx].parent] =
                                            SetWinScore(@, NInfF32)],
                q |-> Evaluate(rollout_board), fired |-> TRUE]}
    ELSE {[panic |-> FALSE, nodes |-> nodes, q |-> q, fired |-> FALSE] :
             q \in RandomRollout(rollout_board)}

(***************************************************************************)
(* The rollout policies (mcts.rs).  An f32 q is NaN or a value in units of *)
(* 1 / QScale.  A run is the playout board with the calls made to the game *)
(* so far: pushes counts push_random and push on the playout board,        *)
(* movegens counts generate_moves.                                         *)
(***************************************************************************)
QScale == 10000

Q(value) == [nan |-> FALSE, value |-> value]

\* the f32 0.0 / 0.0
NaN == [nan |-> TRUE, value |-> 0]

\* f32::from of an evaluation
F32From(evaluation) == Q(evaluation * QScale)

\* RolloutPolicy
Random == [kind |-> "Random", moves |-> 0, policy |-> "None", rollouts |-> 0]
Decisive == [kind |-> "Decisive", moves |-> 0, policy |-> "None", rollouts |-> 0]
RandomQualityScaled ==
    [kind |-> "RandomQualityScaled", moves |-> 0, policy |-> "None", rollouts |-> 0]
DecisiveQualityScaled ==
    [kind |-> "DecisiveQualityScaled", moves |-> 0, policy |-> "None", rollouts |-> 0]
RandomCutoff(moves) ==
    [kind |-> "RandomCutoff", moves |-> moves, policy |-> "None", rollouts |-> 0]
DecisiveCutoff(moves) ==
    [kind |-> "DecisiveCutoff", moves |-> moves, policy |-> "None", rollouts |-> 0]
MetaAggregated(policy, rollouts) ==
    [kind |-> "MetaAggregated", moves |-> 0, policy |-> policy.kind,
     rollouts |-> rollouts]

\* the policies RolloutPolicy::from_str yields: the inner policy of
\* meta_aggregated parses only as one of the four policies without argument
RolloutPolicies ==
    {Random, Decisive, RandomQualityScaled, DecisiveQualityScaled}
      \cup {RandomCutoff(k) : k \in 0..MaxCutoff}
      \cup {DecisiveCutoff(k) : k \in 0..MaxCutoff}
      \cup {MetaAggregated(policy, n) :
               policy \in {Random, Decisive, RandomQualityScaled,
                           DecisiveQualityScaled},
               n \in 0..MaxMetaRollouts}

StartRun(playout_board) == [board |-> playout_board, pushes |-> 0, movegens |-> 0]

\* what a rollout returns, with the calls it made
Returned(run, q) == [panic |-> FALSE, q |-> q, board |-> run.board,
                     pushes |-> run.pushes, movegens |-> run.movegens]

\* (-0.04 * moves).exp() in f32, rounded to units of 1 / QScale
ExpOf(moves) ==
    CASE moves = 0 -> 10000
      [] moves = 1 -> 9608
      [] moves = 2 -> 9231
      [] moves = 3 -> 8869
      [] moves = 4 -> 8521
      [] moves = 5 -> 8187
      [] moves = 6 -> 7866
      [] moves = 7 -> 7558
      [] moves = 8 -> 7261
      [] moves = 9 -> 6977
      [] OTHER -> 6703

\* MCTS::scale on the f32 of an evaluation q
Scale(q, moves) == Q(q * ExpOf(moves))

\* MCTS::random_rollout with the calls it makes
RECURSIVE RandomRolloutRun(_)
RandomRolloutRun(run) ==
    IF IsTerminal(run.board)
    THEN {Returned(run, F32From(Evaluate(run.board)))}
    ELSE UNION {RandomRolloutRun([run EXCEPT !.board = b, !.pushes = @ + 1]) :
                   b \in PushRandom(run.board)}

\* MCTS::random_rollout_qs; moves is 1 on entry
RECURSIVE RandomRolloutQs(_, _)
RandomRolloutQs(run, moves) ==
    IF IsTerminal(run.board)
    THEN {Returned(run, Scale(Evaluate(run.board), moves))}
    ELSE UNION {RandomRolloutQs([run EXCEPT !.board = b, !.pushes = @ + 1],
                                moves + 1) :
                   b \in PushRandom(run.board)}

\* MCTS::decisive_rollout.  For every move of the buffer the loop pushes the
\* move on board_copy and then takes playout_board.evaluate(), the
\* evaluation of the board the move was not pushed on.
RECURSIVE DecisiveRollout(_)
DecisiveRollout(run) ==
    IF IsTerminal(run.board)
    THEN {Returned(run, F32From(Evaluate(run.board)))}
    ELSE LET buffer == GenerateMoves(run.board)
             generated == [run EXCEPT !.movegens = @ + 1]
             evaluation == Evaluate(run.board)
         IN IF Len(buffer) > 0 /\ evaluation # 0
            THEN {Returned(generated, F32From(evaluation))}
            ELSE UNION {DecisiveRollout([generated EXCEPT
                                            !.board = Push(@, buffer[idx]),
                                            !.pushes = @ + 1]) :
                           idx \in 1..Len(buffer)}

\* MCTS::decisive_rollout_qs; moves is 1 on entry
RECURSIVE DecisiveRolloutQs(_, _)
DecisiveRolloutQs(run, moves) ==
    IF IsTerminal(run.board)
    THEN {Returned(run, Scale(Evaluate(run.board), moves))}
    ELSE LET buffer == GenerateMoves(run.board)
             generated == [run EXCEPT !.movegens = @ + 1]
             evaluation == Evaluate(run.board)
         IN IF Len(buffer) > 0 /\ evaluation # 0
            THEN {Returned(generated,
                           Q((evaluation * 10 * QScale) \div (moves + 10)))}
            ELSE UNION {DecisiveRolloutQs([generated EXCEPT
                                              !.board = Push(@, buffer[idx]),
                                              !.pushes = @ + 1], moves + 1) :
                           idx \in 1..Len(buffer)}

\* MCTS::random_rollout_cutoff giving up one move early, at counter >= moves
RECURSIVE RandomRolloutCutoffEarly(_, _, _)
RandomRolloutCutoffEarly(run, moves, counter) ==
    IF IsTerminal(run.board)
    THEN {Returned(run, F32From(Evaluate(run.board)))}
    ELSE IF counter >= moves
    THEN {Returned(run, Q(0))}
    ELSE UNION {RandomRolloutCutoffEarly([run EXCEPT !.board = b, !.pushes = @ + 1],
                                         moves, counter + 1) :
                   b \in PushRandom(run.board)}

\* MCTS::random_rollout_cutoff; counter is 1 on entry
RECURSIVE RandomRolloutCutoff(_, _, _)
RandomRolloutCutoff(run, moves, counter) ==
    IF IsTerminal(run.board)
    THEN {Returned(run, F32From(Evaluate(run.board)))}
    ELSE IF counter > moves
    THEN {Returned(run, Q(0))}
    ELSE UNION {RandomRolloutCutoff([run EXCEPT !.board = b, !.pushes = @ + 1],
                                    moves, counter + 1) :
                   b \in PushRandom(run.board)}

\* MCTS::decisive_rollout_cutoff; counter is 1 on entry
RECURSIVE DecisiveRolloutCutoff(_, _, _)
DecisiveRolloutCutoff(run, moves, counter) ==
    IF IsTerminal(run.board)
    THEN {Returned(run, F32From(Evaluate(run.board)))}
    ELSE IF counter > moves
    THEN {Returned(run, Q(0))}
    ELSE LET buffer == GenerateMoves(run.board)
             generated == [run EXCEPT !.movegens = @ + 1]
             evaluation == Evaluate(run.board)
         IN IF Len(buffer) > 0 /\ evaluation # 0
            THEN {Returned(generated, F32From(evaluation))}
            ELSE UNION {DecisiveRolloutCutoff([generated EXCEPT
                                                  !.board = Push(@, buffer[idx]),
                                                  !.pushes = @ + 1],
                                              moves, counter + 1) :
                           idx \in 1..Len(buffer)}

\* the function f the MetaAggregated arm of simulate picks for the inner
\* policy, applied to a clone of the rollout board
MetaAggregatedInner(policy, roller) ==
    CASE policy = "Random" -> RandomRolloutRun(StartRun(roller))
      [] policy = "Decisive" -> DecisiveRollout(StartRun(roller))
      [] policy = "RandomQualityScaled" -> RandomRolloutQs(StartRun(roller), 1)
      [] policy = "DecisiveQualityScaled" -> DecisiveRolloutQs(StartRun(roller), 1)

\* the loop `for _ in 0..rollouts` of the MetaAggregated arm: from the sums
\* (and the calls made on the clones) the loop can stand at with `remaining`
\* turns to go, those it can end with
RECURSIVE MetaAggregatedLoop(_, _, _, _)
MetaAggregatedLoop(policy, rollout_board, remaining, accs) ==
    IF remaining = 0 THEN accs
    ELSE MetaAggregatedLoop(policy, rollout_board, remaining - 1,
                            {[sum |-> acc.sum + o.q.value,
                              pushes |-> acc.pushes + o.pushes,
                              movegens |-> acc.movegens + o.movegens] :
                                acc \in accs,
                                o \in MetaAggregatedInner(policy, rollout_board)})

\* the playout of MCTS::simulate, the match on flags.rollout_policy: what it
\* returns and the calls it made.  An inner policy of MetaAggregated other
\* than the four without argument panics; sum / (rollouts as f32) is
\* 0.0 / 0.0 when rollouts is 0.
SimulatePlayout(rollout_policy, rollout_board) ==
    CASE rollout_policy.kind = "Random" -> RandomRolloutRun(StartRun(rollout_board))
      [] rollout_policy.kind = "Decisive" -> DecisiveRollout(StartRun(rollout_board))
      [] rollout_policy.kind = "RandomQualityScaled" ->
            RandomRolloutQs(StartRun(rollout_board), 1)
      [] rollout_policy.kind = "DecisiveQualityScaled" ->
            DecisiveRolloutQs(StartRun(rollout_board), 1)
      [] rollout_policy.kind = "RandomCutoff" ->
            RandomRolloutCutoff(StartRun(rollout_board), rollout_policy.moves, 1)
      [] rollout_policy.kind = "DecisiveCutoff" ->
            DecisiveRolloutCutoff(StartRun(rollout_board), rollout_policy.moves, 1)
      [] rollout_policy.kind = "MetaAggregated" ->
            IF rollout_policy.policy \notin {"Random", "Decisive",
                                             "RandomQualityScaled",
                                             "DecisiveQualityScaled"}
            THEN {[panic |-> TRUE, q |-> Q(0), board |-> rollout_board,
                   pushes |-> 0, movegens |-> 0]}
            ELSE {[panic |-> FALSE,
                   q |-> IF rollout_policy.rollouts = 0 THEN NaN
                         ELSE Q(acc.sum \div rollout_policy.rollouts),
                   board |-> rollout_board,
                   pushes |-> acc.pushes, movegens |-> acc.movegens] :
                    acc \in MetaAggregatedLoop(rollout_policy.policy, rollout_board,
                                               rollout_policy.rollouts,
                                               {[sum |-> 0, pushes |-> 0,
                                                 movegens |-> 0]})}

(***************************************************************************)
(* The inputs of the model: the Behaviours an engine is created with and   *)
(* the boards search is called on.  Every board is a position legal play   *)
(* reaches from the empty board.                                           *)
(***************************************************************************)
\* X to move, three empty squares, O has a winning reply to every move
BoardXLost == [x |-> {0, 1, 7}, o |-> {2, 4, 8}, moves |-> 6]
\* X to move, three empty squares, lines ending in a win, a draw and a loss
BoardXMixed == [x |-> {0, 2, 7}, o |-> {1, 4, 5}, moves |-> 6]
\* O to move, two empty squares, square 6 wins for O at once
BoardOWins == [x |-> {0, 1, 5, 7}, o |-> {2, 4, 8}, moves |-> 7]
\* terminal: X has completed the top row
BoardXWon == [x |-> {0, 1, 2}, o |-> {3, 4}, moves |-> 5]
\* terminal: O has completed a diagonal
BoardOWon == [x |-> {0, 1, 5}, o |-> {2, 4, 6}, moves |-> 6]
\* terminal: full board, no line
BoardDrawn == [x |-> {0, 1, 5, 6, 8}, o |-> {2, 3, 4, 7}, moves |-> 9]

Boards == {BoardXLost, BoardXMixed, BoardOWins, BoardXWon, BoardOWon, BoardDrawn}

\* the seeds fastrand::Rng::new() can give the engine's rng
Seeds == {42}

\* Limit
Limits == {[kind |-> "Rollouts", n |-> n] : n \in 0..MaxRollouts}
            \cup {[kind |-> "Time", n |-> 0]}

\* Behaviour: the fields the search reads
Behaviours == [limit : Limits, training : BOOLEAN,
               root_parallelism_count : {1}, rollout_policy : {Random}]

(***************************************************************************)
(* The state of an engine and of the search call in progress.              *)
(***************************************************************************)
VARIABLES
    flags,      \* search_info.flags, the Behaviour the engine was created with
    rng,        \* the seed of the engine's rng
    capacity,   \* tree.capacity
    root,       \* tree.root: << >> for None, <<board>> for Some(board)
    nodes,      \* tree.nodes
    rollouts,   \* tree.rollouts
    phase,      \* "idle", "searching" (in the loop of do_treesearch),
                \* "done" (search returned), "panicked"
    results,    \* the SearchResults search returned
    last,       \* what the last iteration of the loop did
    twin,       \* a second engine, created with the same Behaviour and seed
    stdin_rx,   \* search_info.stdin_rx and the messages waiting in the channel
    earlier,    \* how the engine stood when the current search was called:
                \* "idle" (first call), "done" or "panicked" (earlier call)
    playout,    \* the last playout of simulate: the rollout board handed in
                \* and what the playout returned
    config,     \* the last configuration string parsed and what
                \* Behaviour::from_str returned for it
    record,     \* a GameRecord, the bytes write_to wrote for it and the
                \* GameRecord read_from read back from them
    game        \* a game state on its own: a TicTacToe or a Connect4 position
                \* and what the last call of its interface did

vars == <<flags, rng, capacity, root, nodes, rollouts, phase, results, last, twin,
          stdin_rx, earlier, playout, config, record, game>>

NoResults == [valid |-> FALSE, rollout_distribution |-> <<>>, new_node |-> NewBoard,
              new_node_idx |-> 0, rollouts |-> 0, win_rate |-> [num |-> 0, den |-> 1]]

NoIteration == [valid |-> FALSE, promising_node_idx |-> 0, path |-> <<>>,
                expanded |-> FALSE, node_to_explore |-> 0, state |-> NewBoard,
                rollout_board |-> NewBoard, status |-> 0,
                fired |-> FALSE, q |-> 0]

\* the second engine before MCTS::new creates it
NoTwin == [phase |-> "idle", rng |-> 0, root |-> <<>>, nodes |-> <<>>,
           rollouts |-> 0, results |-> NoResults]

NoPlayout == [valid |-> FALSE, rollout_board |-> NewBoard,
              outcome |-> Returned(StartRun(NewBoard), Q(0))]

\* no configuration string parsed yet
NoConfig == [valid |-> FALSE, input |-> <<>>, ok |-> FALSE, err |-> "",
             behaviour |-> [limit |-> [kind |-> "Rollouts", n |-> 1],
                            training |-> FALSE, root_parallelism_count |-> 1,
                            rollout_policy |-> Random]]

\* no GameRecord created
NoRecord ==
    [valid |-> FALSE,
     header |-> [move_count |-> 0, outcome |-> 0, action_space_dimensions |-> <<>>],
     entries |-> <<>>,
     written |-> [valid |-> FALSE, panic |-> FALSE, bytes |-> <<>>],
     read |-> [valid |-> FALSE, ok |-> FALSE,
               header |-> [move_count |-> 0, outcome |-> 0,
                           action_space_dimensions |-> <<>>],
               entries |-> <<>>]]

\* Connect4 (connectfour.rs): ROWS, COLS and Connect4::new.  board[p][row]
\* is a bit row; it is modelled as the set of the columns of its set bits.
ROWS == 6
COLS == 7
Connect4New == [board |-> [p \in 0..1 |-> [row \in 0..(ROWS - 1) |-> {}]],
                moves |-> 0]

\* TTTMoveBuf::default() of games/tictactoe.rs: nine moves TicTacToeMove(0)
\* and n_moves = 0
TTTMoveBufDefault == [data |-> [i \in 1..9 |-> 0], n_moves |-> 0]

\* no game state created
NoGame ==
    [kind |-> "none",
     ttt |-> NewBoard,
     generated |-> [valid |-> FALSE, buffer |-> TTTMoveBufDefault, vec |-> <<>>],
     connect4 |-> Connect4New,
     pushed |-> [valid |-> FALSE, m |-> 0, before |-> Connect4New],
     popped |-> [valid |-> FALSE, panic |-> FALSE]]

\* stdin_rx: None
NoChannel == [some |-> FALSE, queue |-> <<>>]

\* MCTS::new
Init ==
    /\ flags \in Behaviours
    /\ rng \in Seeds
    /\ capacity = NODEPOOL_SIZE
    /\ root = <<>>
    /\ nodes = <<>>
    /\ rollouts = 0
    /\ phase = "idle"
    /\ results = NoResults
    /\ last = NoIteration
    /\ twin = NoTwin
    /\ stdin_rx = NoChannel
    /\ earlier = "idle"
    /\ playout = NoPlayout
    /\ config = NoConfig
    /\ record = NoRecord
    /\ game = NoGame

\* SearchInfo::limit_reached comparing with > where the source has >=
LimitReachedOffByOne(limit, n) ==
    IF limit.kind = "Rollouts" THEN {n > limit.n}
    ELSE IF n >= MaxRollouts THEN {TRUE} ELSE {TRUE, FALSE}

\* SearchInfo::limit_reached: the answers it can give.  The clock of a time
\* limit can have run out at any check; the model has it run out at the
\* latest after MaxRollouts iterations.
LimitReached(limit, n) ==
    IF limit.kind = "Rollouts" THEN {n >= limit.n}
    ELSE IF n >= MaxRollouts THEN {TRUE} ELSE {TRUE, FALSE}

\* select_expand_simulate_backpropagate followed by tree.inc_rollouts: the
\* outcomes one iteration can have on the tree.  Which child random_child
\* returns and which squares push_random fills are drawn from
\* rand::thread_rng(), whatever the seed of the engine's rng.
SelectExpandSimulateBackpropagate(tree_nodes, tree_rollouts, tree_capacity, board) ==
    LET sel == Select(tree_nodes, ROOT_IDX, board, <<>>)
        promising_node_idx == sel.idx
        traversing_state == sel.state
        expands == ~IsTerminal(traversing_state)
        expansion == IF expands
                     THEN Expand(tree_nodes, tree_capacity, promising_node_idx,
                                 traversing_state)
                     ELSE [ok |-> TRUE, error |-> "none", nodes |-> tree_nodes]
        promising_node == expansion.nodes[promising_node_idx]
        candidates == IF HasChildren(promising_node)
                      THEN Children(promising_node)
                      ELSE {promising_node_idx}
        Report(node_to_explore, sim) ==
            [valid |-> TRUE,
             promising_node_idx |-> promising_node_idx,
             path |-> sel.path,
             expanded |-> expands,
             node_to_explore |-> node_to_explore,
             state |-> sel.state,
             rollout_board |-> traversing_state,
             status |-> Evaluate(traversing_state),
             fired |-> sim.fired,
             q |-> sim.q]
    IN IF ~expansion.ok
       THEN {[phase |-> "panicked", nodes |-> expansion.nodes,
              rollouts |-> tree_rollouts, last |-> NoIteration]}
       ELSE UNION {
              {IF sim.panic
               THEN [phase |-> "panicked", nodes |-> expansion.nodes,
                     rollouts |-> tree_rollouts,
                     last |-> Report(node_to_explore, sim)]
               ELSE [phase |-> "searching",
                     nodes |-> Backprop(sim.nodes, node_to_explore, sim.q),
                     rollouts |-> tree_rollouts + 1,
                     last |-> Report(node_to_explore, sim)] :
                 sim \in Simulate(expansion.nodes, node_to_explore, traversing_state)} :
              node_to_explore \in candidates}

\* max_by_key(count) yielding the last position whatever the counts are
LastPosition(distribution) ==
    CHOOSE i \in 1..Len(distribution) : i = Len(distribution)

\* the index max_by_key(count) yields: the last position holding the maximum
LastMax(distribution) ==
    CHOOSE i \in 1..Len(distribution) :
        /\ \A j \in 1..Len(distribution) : distribution[j] <= distribution[i]
        /\ \A j \in (i + 1)..Len(distribution) : distribution[j] < distribution[i]

\* sample_move_index_from_rollouts: the indices (0-based) it can return, the
\* float being drawn from rand::thread_rng().  Every probability is at least
\* 0.3 / len, so every index can be drawn; on an empty distribution the loop
\* does not run and choice stays 0.
SampleMoveIndexFromRollouts(distribution) ==
    IF Len(distribution) = 0 THEN {0} ELSE 0..(Len(distribution) - 1)

\* MCTS::search after do_treesearch: the outcomes it can have
SearchResultsOf(behaviour, board, tree_nodes, tree_rollouts) ==
    LET rollout_distribution == RootRolloutDistribution(tree_nodes)
        avg_win_rate == WinRate(tree_nodes[ROOT_IDX])
        total_rollouts == tree_rollouts
        asserted == behaviour.limit.kind = "Rollouts" =>
                       total_rollouts = behaviour.limit.n * behaviour.root_parallelism_count
        moves_chosen == IF behaviour.training
                        THEN SampleMoveIndexFromRollouts(rollout_distribution)
                        ELSE IF Len(rollout_distribution) = 0 THEN {}
                        ELSE {LastMax(rollout_distribution) - 1}
        Failed == [phase |-> "panicked", results |-> NoResults]
    IN IF ~asserted \/ moves_chosen = {}
       THEN {Failed}
       ELSE {LET new_node_idx == move_chosen + tree_nodes[ROOT_IDX].first_child
             IN IF new_node_idx \notin DOMAIN tree_nodes
                THEN Failed
                ELSE [phase |-> "done",
                      results |->
                        [valid |-> TRUE,
                         rollout_distribution |-> rollout_distribution,
                         new_node |-> Push(board, tree_nodes[new_node_idx].inbound_edge),
                         new_node_idx |-> new_node_idx,
                         rollouts |-> total_rollouts,
                         win_rate |-> avg_win_rate]] :
               move_chosen \in moves_chosen}

\* MCTS::search up to the loop of do_treesearch: tree.setup(board).  A call
\* follows the creation of the engine, the return of an earlier call, or an
\* earlier call that a fatal error aborted (the caller having caught the
\* unwinding panic).
Search(board) ==
    /\ phase \in {"idle", "done", "panicked"}
    /\ root' = <<board>>
    /\ nodes' = SetupNodes(board)
    /\ rollouts' = 0
    /\ phase' = "searching"
    /\ results' = NoResults
    /\ last' = NoIteration
    /\ earlier' = phase
    /\ UNCHANGED <<flags, rng, capacity, game, playout, config, record, stdin_rx, twin>>

\* one iteration of the loop of do_treesearch
Iterate ==
    /\ phase = "searching"
    /\ FALSE \in LimitReached(flags.limit, rollouts)
    /\ \E outcome \in SelectExpandSimulateBackpropagate(nodes, rollouts, capacity, root[1]) :
          /\ phase' = outcome.phase
          /\ nodes' = outcome.nodes
          /\ rollouts' = outcome.rollouts
          /\ last' = outcome.last
    /\ UNCHANGED <<flags, rng, capacity, game, playout, config, record, stdin_rx, earlier, root, results, twin>>

\* the exit of the loop of do_treesearch and the rest of MCTS::search
Finish ==
    /\ phase = "searching"
    /\ TRUE \in LimitReached(flags.limit, rollouts)
    /\ \E outcome \in SearchResultsOf(flags, root[1], nodes, rollouts) :
          /\ phase' = outcome.phase
          /\ results' = outcome.results
    /\ UNCHANGED <<flags, rng, capacity, game, playout, config, record, stdin_rx, earlier, root, nodes, rollouts, last, twin>>

Next ==
    \/ \E board \in Boards : Search(board)
    \/ Iterate
    \/ Finish

Spec == Init /\ [][Next]_vars

(***************************************************************************)
(* An engine whose search_info holds a stdin channel, as SearchInfo::new   *)
(* builds it, and the thread that forwards the lines of stdin into the     *)
(* channel.                                                                *)
(***************************************************************************)
\* the lines the stdin thread forwards
Messages == {"stop"}

\* Behaviour::default: the fields the search reads
BehaviourDefault == [limit |-> [kind |-> "Time", n |-> 0], training |-> FALSE,
                     root_parallelism_count |-> 1, rollout_policy |-> Random]

\* SearchInfo::check_up: the answers it can give and the channel it leaves.
\* try_recv takes the message at the head of the channel; "stop" answers
\* true, anything else falls through to limit_reached(0).  No function of
\* the engine calls check_up.
CheckUp(rx, limit) ==
    IF rx.some /\ Len(rx.queue) > 0
    THEN IF Head(rx.queue) = "stop"
         THEN {[answer |-> TRUE, rx |-> [rx EXCEPT !.queue = Tail(@)]]}
         ELSE {[answer |-> a, rx |-> [rx EXCEPT !.queue = Tail(@)]] :
                  a \in LimitReached(limit, 0)}
    ELSE {[answer |-> a, rx |-> rx] : a \in LimitReached(limit, 0)}

\* an engine with the search_info of SearchInfo::new(stdin_rx)
InitStdin ==
    /\ flags = BehaviourDefault
    /\ rng \in Seeds
    /\ capacity = NODEPOOL_SIZE
    /\ root = <<>>
    /\ nodes = <<>>
    /\ rollouts = 0
    /\ phase = "idle"
    /\ results = NoResults
    /\ last = NoIteration
    /\ twin = NoTwin
    /\ stdin_rx = [some |-> TRUE, queue |-> <<>>]
    /\ earlier = "idle"
    /\ playout = NoPlayout
    /\ config = NoConfig
    /\ record = NoRecord
    /\ game = NoGame

\* the stdin thread sends a line into the channel
SendMessage(msg) ==
    /\ stdin_rx.some
    /\ Len(stdin_rx.queue) < MaxMessages
    /\ stdin_rx' = [stdin_rx EXCEPT !.queue = Append(@, msg)]
    /\ UNCHANGED <<flags, rng, capacity, game, root, nodes, rollouts, phase, results,
                   last, twin, earlier, playout, config, record>>

NextStdin ==
    \/ \E board \in Boards : Search(board)
    \/ Iterate
    \/ Finish
    \/ \E msg \in Messages : SendMessage(msg)

SpecStdin == InitStdin /\ [][NextStdin]_vars

(***************************************************************************)
(* Engines created with a Behaviour whose root_parallelism_count is more   *)
(* than 1.  MCTS holds one tree whatever the count; search reads the count *)
(* in the assertion on the total of the rollouts alone.                    *)
(***************************************************************************)
BehavioursParallel ==
    [limit : {[kind |-> "Rollouts", n |-> n] : n \in 0..MaxParallelRollouts}
               \cup {[kind |-> "Time", n |-> 0]},
     training : BOOLEAN,
     root_parallelism_count : {2, 3},
     rollout_policy : {Random}]

\* MCTS::new(flags) with root_parallelism_count > 1
InitParallel ==
    /\ flags \in BehavioursParallel
    /\ rng \in Seeds
    /\ capacity = NODEPOOL_SIZE
    /\ root = <<>>
    /\ nodes = <<>>
    /\ rollouts = 0
    /\ phase = "idle"
    /\ results = NoResults
    /\ last = NoIteration
    /\ twin = NoTwin
    /\ stdin_rx = NoChannel
    /\ earlier = "idle"
    /\ playout = NoPlayout
    /\ config = NoConfig
    /\ record = NoRecord
    /\ game = NoGame

SpecParallel == InitParallel /\ [][Next]_vars

(***************************************************************************)
(* A SearchTree on its own: created by SearchTree::with_capacity with a    *)
(* small capacity, set up on a board and expanded node by node, each node  *)
(* with the state it stands for.  last holds the report of the last call   *)
(* of expand.                                                              *)
(***************************************************************************)
\* SearchTree::with_capacity(capacity)
InitArena ==
    /\ flags = BehaviourDefault
    /\ rng \in Seeds
    /\ capacity \in 1..MaxCapacity
    /\ root = <<>>
    /\ nodes = <<>>
    /\ rollouts = 0
    /\ phase = "idle"
    /\ results = NoResults
    /\ last = NoIteration
    /\ twin = NoTwin
    /\ stdin_rx = NoChannel
    /\ earlier = "idle"
    /\ playout = NoPlayout
    /\ config = NoConfig
    /\ record = NoRecord
    /\ game = NoGame

\* SearchTree::setup(board)
ArenaSetup(board) ==
    /\ root' = <<board>>
    /\ nodes' = SetupNodes(board)
    /\ rollouts' = 0
    /\ phase' = "arena"
    /\ last' = NoIteration
    /\ UNCHANGED <<flags, rng, capacity, game, playout, config, record, stdin_rx, earlier, results, twin>>

\* SearchTree::expand(idx, state of the node)
ArenaExpand(idx) ==
    /\ phase = "arena"
    /\ idx \in DOMAIN nodes
    /\ LET movegen_board == StateOf(nodes, root[1], idx)
           expansion == Expand(nodes, capacity, idx, movegen_board)
       IN /\ nodes' = expansion.nodes
          /\ phase' = IF expansion.ok THEN "arena" ELSE "panicked"
          /\ last' = [valid |-> TRUE, idx |-> idx,
                      had_children |-> HasChildren(nodes[idx]),
                      start |-> ArenaLen(nodes),
                      count |-> Len(GenerateMoves(movegen_board)),
                      error |-> expansion.error]
    /\ UNCHANGED <<flags, rng, capacity, game, playout, config, record, stdin_rx, earlier, root, rollouts,
                   results, twin>>

NextArena ==
    \/ \E board \in Boards : ArenaSetup(board)
    \/ \E idx \in 0..(MaxCapacity - 1) : ArenaExpand(idx)

SpecArena == InitArena /\ [][NextArena]_vars

(***************************************************************************)
(* The playout of simulate on its own: an engine created with any rollout  *)
(* policy, and simulate reaching its playout with a rollout board.         *)
(***************************************************************************)
\* X to move, five empty squares, no line completed by the next move
BoardOpen == [x |-> {0, 4}, o |-> {1, 8}, moves |-> 4]

RolloutBoards == Boards \cup {BoardOpen}

BehavioursRollout ==
    [limit : {[kind |-> "Rollouts", n |-> 1]}, training : {FALSE},
     root_parallelism_count : {1}, rollout_policy : RolloutPolicies]

\* MCTS::new(flags)
InitRollout ==
    /\ flags \in BehavioursRollout
    /\ rng \in Seeds
    /\ capacity = NODEPOOL_SIZE
    /\ root = <<>>
    /\ nodes = <<>>
    /\ rollouts = 0
    /\ phase = "idle"
    /\ results = NoResults
    /\ last = NoIteration
    /\ twin = NoTwin
    /\ stdin_rx = NoChannel
    /\ earlier = "idle"
    /\ playout = NoPlayout
    /\ config = NoConfig
    /\ record = NoRecord
    /\ game = NoGame

\* the playout of simulate on a rollout board
Playout(rollout_board) ==
    /\ \E outcome \in SimulatePlayout(flags.rollout_policy, rollout_board) :
          playout' = [valid |-> TRUE, rollout_board |-> rollout_board,
                      outcome |-> outcome]
    /\ UNCHANGED <<flags, rng, capacity, game, config, record, stdin_rx, earlier, root, nodes,
                   rollouts, phase, results, last, twin>>

NextRollout == \E rollout_board \in RolloutBoards : Playout(rollout_board)

SpecRollout == InitRollout /\ [][NextRollout]_vars

(***************************************************************************)
(* Two searches of the same root by engines created with the same          *)
(* Behaviour and the same seed: once the first engine's search has         *)
(* returned, a second engine searches the same board.                      *)
(***************************************************************************)
\* MCTS::new(flags) with the seed of the first engine, then MCTS::search up
\* to the loop on the board the first engine searched
TwinSearch ==
    /\ phase = "done"
    /\ twin.phase = "idle"
    /\ flags.limit.kind = "Rollouts"
    /\ flags.limit.n <= MaxTwinRollouts
    /\ twin' = [phase |-> "searching", rng |-> rng, root |-> root,
                nodes |-> SetupNodes(root[1]), rollouts |-> 0,
                results |-> NoResults]
    /\ UNCHANGED <<flags, rng, capacity, game, playout, config, record, stdin_rx, earlier, root, nodes, rollouts, phase, results, last>>

\* one iteration of the loop of do_treesearch in the second engine
TwinIterate ==
    /\ twin.phase = "searching"
    /\ FALSE \in LimitReached(flags.limit, twin.rollouts)
    /\ \E outcome \in SelectExpandSimulateBackpropagate(twin.nodes, twin.rollouts,
                                                       capacity, twin.root[1]) :
          twin' = [twin EXCEPT !.phase = outcome.phase,
                               !.nodes = outcome.nodes,
                               !.rollouts = outcome.rollouts]
    /\ UNCHANGED <<flags, rng, capacity, game, playout, config, record, stdin_rx, earlier, root, nodes, rollouts, phase, results, last>>

\* the exit of the loop and the rest of MCTS::search in the second engine
TwinFinish ==
    /\ twin.phase = "searching"
    /\ TRUE \in LimitReached(flags.limit, twin.rollouts)
    /\ \E outcome \in SearchResultsOf(flags, twin.root[1], twin.nodes, twin.rollouts) :
          twin' = [twin EXCEPT !.phase = outcome.phase,
                               !.results = outcome.results]
    /\ UNCHANGED <<flags, rng, capacity, game, playout, config, record, stdin_rx, earlier, root, nodes, rollouts, phase, results, last>>

NextTwin ==
    \/ \E board \in Boards : twin = NoTwin /\ Search(board)
    \/ Iterate
    \/ Finish
    \/ TwinSearch
    \/ TwinIterate
    \/ TwinFinish

SpecTwin == Init /\ [][NextTwin]_vars

(***************************************************************************)
(* Configuration.  A configuration string is a sequence of tokens: the     *)
(* separator characters "," "=" ":" "." and the words between them, which  *)
(* hold no separator.  Behaviour::from_str and RolloutPolicy::from_str cut *)
(* the string with split_once and compare or parse the pieces.             *)
(***************************************************************************)
\* str::split_once(sep): the pieces before and after the first sep
RECURSIVE IndexOf(_, _, _)
IndexOf(s, sep, i) ==
    IF i > Len(s) THEN 0
    ELSE IF s[i] = sep THEN i
    ELSE IndexOf(s, sep, i + 1)

SplitOnce(s, sep) ==
    LET i == IndexOf(s, sep, 1)
    IN  IF i = 0 THEN [some |-> FALSE, before |-> <<>>, after |-> <<>>]
        ELSE [some |-> TRUE, before |-> SubSeq(s, 1, i - 1),
              after |-> SubSeq(s, i + 1, Len(s))]

\* str::starts_with(prefix), for a prefix that holds no separator: the
\* first word of the string is the prefix or goes on after it, as three
\* words of the configuration strings do
StartsWith(s, prefix) ==
    /\ Len(s) > 0
    /\ \/ s[1] = prefix
       \/ <<s[1], prefix>> \in {<<"random_cutoffs", "random_cutoff">>,
                                <<"decisive_cutoff_", "decisive_cutoff">>,
                                <<"meta_aggregatedd", "meta_aggregated">>}

\* the decimal words of the configuration strings and their values
Numerals == {<<"0", 0>>, <<"1", 1>>, <<"2", 2>>, <<"3", 3>>}

\* str::parse::<u32>, ::<u64>, ::<usize>: a string of digits only, and here
\* every such string is within the range of the three types
ParseUnsigned(s) ==
    IF Len(s) = 1 /\ \E numeral \in Numerals : numeral[1] = s[1]
    THEN [ok |-> TRUE,
          value |-> (CHOOSE numeral \in Numerals : numeral[1] = s[1])[2]]
    ELSE [ok |-> FALSE, value |-> 0]

PolicyOk(policy) == [ok |-> TRUE, err |-> "", policy |-> policy]
PolicyErr(err) == [ok |-> FALSE, err |-> err, policy |-> Random]

\* RolloutPolicy::from_str
RECURSIVE RolloutPolicyFromStr(_)
RolloutPolicyFromStr(s) ==
    IF s = <<"random">> THEN PolicyOk(Random)
    ELSE IF s = <<"decisive">> THEN PolicyOk(Decisive)
    ELSE IF s = <<"random_quality_scaled">> THEN PolicyOk(RandomQualityScaled)
    ELSE IF s = <<"decisive_quality_scaled">> THEN PolicyOk(DecisiveQualityScaled)
    ELSE IF StartsWith(s, "random_cutoff")
    THEN LET split == SplitOnce(s, ".")
             moves == ParseUnsigned(split.after)
         IN  IF ~split.some
             THEN PolicyErr("no dot separator after random_cutoff")
             ELSE IF ~moves.ok
             THEN PolicyErr("could not parse moves after random_cutoff")
             ELSE PolicyOk(RandomCutoff(moves.value))
    ELSE IF StartsWith(s, "decisive_cutoff")
    THEN LET split == SplitOnce(s, ".")
             moves == ParseUnsigned(split.after)
         IN  IF ~split.some
             THEN PolicyErr("no dot separator after decisive_cutoff")
             ELSE IF ~moves.ok
             THEN PolicyErr("could not parse moves after decisive_cutoff")
             ELSE PolicyOk(DecisiveCutoff(moves.value))
    ELSE IF StartsWith(s, "meta_aggregated")
    THEN LET split == SplitOnce(s, ".")
             rest == SplitOnce(split.after, ".")
             policy == RolloutPolicyFromStr(rest.before)
             repeats == ParseUnsigned(rest.after)
         IN  IF ~split.some
             THEN PolicyErr("no dot separator after meta_aggregated")
             ELSE IF ~rest.some
             THEN PolicyErr("no dot separator after meta_aggregated policy")
             ELSE IF ~policy.ok
             THEN PolicyErr("could not parse policy after meta_aggregated")
             ELSE IF ~repeats.ok
             THEN PolicyErr("could not parse rollouts after meta_aggregated")
             ELSE PolicyOk(MetaAggregated(policy.policy, repeats.value))
    ELSE PolicyErr("Invalid rollout policy")

BehaviourOk(s, limit, rollout_policy) ==
    [valid |-> TRUE, input |-> s, ok |-> TRUE, err |-> "",
     behaviour |-> [limit |-> limit, training |-> FALSE,
                    root_parallelism_count |-> 1,
                    rollout_policy |-> rollout_policy]]

BehaviourErr(s, err) == [NoConfig EXCEPT !.valid = TRUE, !.input = s, !.err = err]

\* Behaviour::from_str
BehaviourFromStr(s) ==
    LET halves == SplitOnce(s, ",")
        limit == SplitOnce(halves.before, "=")
        rollout_policy == SplitOnce(halves.after, "=")
        limit_value == SplitOnce(limit.after, ":")
        number == ParseUnsigned(limit_value.after)
        policy == RolloutPolicyFromStr(rollout_policy.after)
    IN  IF ~halves.some THEN BehaviourErr(s, "no comma separator")
        ELSE IF ~limit.some THEN BehaviourErr(s, "no equals separator in limit")
        ELSE IF ~rollout_policy.some
        THEN BehaviourErr(s, "no equals separator in rollout_policy")
        ELSE IF limit.before # <<"limit">> THEN BehaviourErr(s, "limit not first")
        ELSE IF rollout_policy.before # <<"rollout_policy">>
        THEN BehaviourErr(s, "rollout_policy not second")
        ELSE IF ~limit_value.some
        THEN BehaviourErr(s, "no colon separator in limit")
        ELSE IF limit_value.before = <<"rollouts">> /\ ~number.ok
        THEN BehaviourErr(s, "could not parse rollouts")
        ELSE IF limit_value.before = <<"time">> /\ ~number.ok
        THEN BehaviourErr(s, "could not parse time")
        ELSE IF limit_value.before \notin {<<"rollouts">>, <<"time">>}
        THEN BehaviourErr(s, "invalid limit type")
        ELSE IF ~policy.ok THEN BehaviourErr(s, "could not parse rollout policy")
        ELSE BehaviourOk(s,
                         IF limit_value.before = <<"rollouts">>
                         THEN [kind |-> "Rollouts", n |-> number.value]
                         ELSE [kind |-> "Time", n |-> number.value],
                         policy.policy)

\* the limit halves of the configuration strings handed to the parser
LimitStrings ==
    {<<"limit", "=", "rollouts", ":", "2">>,
     <<"limit", "=", "time", ":", "1">>,
     <<"limit", "=", "nodes", ":", "2">>,
     <<"limit", "=", "rollouts", ":", "x">>,
     <<"limit", "=", "rollouts", ":">>,
     <<"limit", "=", "rollouts">>,
     <<"depth", "=", "rollouts", ":", "2">>,
     <<"limit">>}

\* the rollout policy values of the configuration strings
PolicyStrings ==
    {<<"random">>, <<"decisive">>, <<"random_quality_scaled">>,
     <<"decisive_quality_scaled">>,
     <<"random_cutoff", ".", "2">>, <<"decisive_cutoff", ".", "1">>,
     <<"meta_aggregated", ".", "random", ".", "2">>,
     <<"meta_aggregated", ".", "decisive_quality_scaled", ".", "0">>,
     <<"meta_aggregated", ".", "random_cutoff", ".", "1", ".", "2">>,
     <<"meta_aggregated", ".", "decisive_cutoff", ".", "1", ".", "2">>,
     <<"meta_aggregated", ".", "meta_aggregated", ".", "random", ".", "1", ".", "2">>,
     <<"meta_aggregated", ".", "random">>,
     <<"meta_aggregated", ".", "random", ".", "x">>,
     <<"meta_aggregated">>,
     <<"meta_aggregatedd", ".", "decisive", ".", "1">>,
     <<"randm">>, <<"random", ".", "2">>,
     <<"random_cutoff">>, <<"random_cutoff", ".", "x">>,
     <<"random_cutoffs", ".", "2">>, <<"decisive_cutoff_", ".", "3">>,
     <<>>}

\* the configuration strings handed to the parser
ConfigStrings ==
    {limit \o <<",">> \o key \o policy :
        limit \in LimitStrings,
        key \in {<<"rollout_policy", "=">>, <<"policy", "=">>, <<>>},
        policy \in PolicyStrings}
      \cup LimitStrings

\* MCTS::new(&Behaviour::default()): the engine before any string is parsed
InitConfig ==
    /\ flags = BehaviourDefault
    /\ rng \in Seeds
    /\ capacity = NODEPOOL_SIZE
    /\ root = <<>>
    /\ nodes = <<>>
    /\ rollouts = 0
    /\ phase = "idle"
    /\ results = NoResults
    /\ last = NoIteration
    /\ twin = NoTwin
    /\ stdin_rx = NoChannel
    /\ earlier = "idle"
    /\ playout = NoPlayout
    /\ config = NoConfig
    /\ record = NoRecord
    /\ game = NoGame

\* s.parse::<Behaviour>() on the configuration string of the run
FromStr(s) ==
    /\ ~config.valid
    /\ config' = BehaviourFromStr(s)
    /\ UNCHANGED <<flags, rng, capacity, game, playout, record, stdin_rx, earlier, root,
                   nodes, rollouts, phase, results, last, twin>>

\* MCTS::new(&behaviour) with the Behaviour the parser returned
New ==
    /\ config.valid
    /\ config.ok
    /\ phase = "idle"
    /\ flags' = config.behaviour
    /\ phase' = "created"
    /\ UNCHANGED <<rng, capacity, game, playout, config, record, stdin_rx, earlier, root,
                   nodes, rollouts, results, last, twin>>

NextConfig ==
    \/ \E s \in ConfigStrings : FromStr(s)
    \/ New
    \/ phase = "created" /\ \E rollout_board \in RolloutBoards : Playout(rollout_board)

SpecConfig == InitConfig /\ [][NextConfig]_vars

(***************************************************************************)
(* An engine created with a Behaviour written as a struct literal: every   *)
(* field of Behaviour is public and MCTS::new takes whatever it is given.  *)
(***************************************************************************)
\* RolloutPolicy: the values of the enum, those no string parses to included
RolloutPoliciesConstructed ==
    RolloutPolicies
      \cup {MetaAggregated(policy, n) :
               policy \in {RandomCutoff(1), DecisiveCutoff(1),
                           MetaAggregated(Random, 1)},
               n \in 0..MaxMetaRollouts}

BehavioursConstructed ==
    [limit : {[kind |-> "Rollouts", n |-> 1]}, training : {FALSE},
     root_parallelism_count : {1}, rollout_policy : RolloutPoliciesConstructed]

\* MCTS::new(flags)
InitConstructed ==
    /\ flags \in BehavioursConstructed
    /\ rng \in Seeds
    /\ capacity = NODEPOOL_SIZE
    /\ root = <<>>
    /\ nodes = <<>>
    /\ rollouts = 0
    /\ phase = "idle"
    /\ results = NoResults
    /\ last = NoIteration
    /\ twin = NoTwin
    /\ stdin_rx = NoChannel
    /\ earlier = "idle"
    /\ playout = NoPlayout
    /\ config = NoConfig
    /\ record = NoRecord
    /\ game = NoGame

SpecConstructed == InitConstructed /\ [][NextRollout]_vars

(***************************************************************************)
(* GameRecord.  A usize is kept as two 32-bit halves, hi * 2^32 + lo, an   *)
(* f64 as the eight bytes of its bit pattern, least significant first;     *)
(* every other integer is a number.  A byte stream is a sequence of        *)
(* numbers in 0..255.                                                      *)
(***************************************************************************)
Usize(n) == [hi |-> 0, lo |-> n]

\* action_space_dimensions.iter().product() over usize, for halves whose
\* products stay below 2^32.  A multiplication overflows when both factors
\* reach 2^32.
RECURSIVE UsizeProduct(_, _)
UsizeProduct(dims, acc) ==
    IF dims = <<>> THEN acc
    ELSE LET a == acc.value
             b == Head(dims)
         IN  UsizeProduct(Tail(dims),
                          [overflow |-> acc.overflow \/ (a.hi # 0 /\ b.hi # 0),
                           value |-> [hi |-> a.hi * b.lo + a.lo * b.hi,
                                      lo |-> a.lo * b.lo]])

\* action_space_dimensions.iter().product() over u32, for dimensions whose
\* product stays below 2^32
RECURSIVE U32Product(_)
U32Product(dims) == IF dims = <<>> THEN 1 ELSE Head(dims) * U32Product(Tail(dims))

RECURSIVE Pow256(_)
Pow256(i) == IF i = 0 THEN 1 ELSE 256 * Pow256(i - 1)

\* to_le_bytes of an unsigned integer of n bytes
ToLeBytes(value, n) == [i \in 1..n |-> (value \div Pow256(i - 1)) % 256]

\* from_le_bytes of an unsigned integer
RECURSIVE FromLeBytes(_)
FromLeBytes(bytes) ==
    IF bytes = <<>> THEN 0 ELSE Head(bytes) + 256 * FromLeBytes(Tail(bytes))

\* i8::to_le_bytes and i8::from_le_bytes: two's complement in one byte
I8ToLeBytes(value) == <<(value + 256) % 256>>
I8FromLeBytes(bytes) == IF bytes[1] >= 128 THEN bytes[1] - 256 ELSE bytes[1]

\* f64 values: 0.5, 0.0, -0.0 and f64::NAN
F64 == [half |-> <<0, 0, 0, 0, 0, 0, 224, 63>>,
        zero |-> <<0, 0, 0, 0, 0, 0, 0, 0>>,
        neg_zero |-> <<0, 0, 0, 0, 0, 0, 0, 128>>,
        nan |-> <<0, 0, 0, 0, 0, 0, 248, 127>>]

\* f64::is_nan: exponent bits all set, mantissa not zero
F64IsNaN(x) ==
    /\ x[8] % 128 = 127
    /\ x[7] >= 240
    /\ \/ x[7] > 240
       \/ \E i \in 1..6 : x[i] # 0

\* f64 == f64: NaN equals nothing, the two zeros are equal
F64Eq(a, b) ==
    /\ ~F64IsNaN(a)
    /\ ~F64IsNaN(b)
    /\ \/ a = b
       \/ {a, b} \subseteq {F64.zero, F64.neg_zero}

\* the derived PartialEq of GameRecord, GameRecordHeader and GameRecordEntry
GameRecordEq(a, b) ==
    /\ a.header = b.header
    /\ Len(a.entries) = Len(b.entries)
    /\ \A i \in 1..Len(a.entries) :
          /\ a.entries[i].policy = b.entries[i].policy
          /\ a.entries[i].chosen_move = b.entries[i].chosen_move
          /\ F64Eq(a.entries[i].evaluation, b.entries[i].evaluation)

RECURSIVE Flatten(_)
Flatten(chunks) == IF chunks = <<>> THEN <<>> ELSE Head(chunks) \o Flatten(Tail(chunks))

\* the bytes write_to writes for one entry
EntryBytes(entry) ==
    ToLeBytes(entry.chosen_move, 4) \o entry.evaluation
      \o Flatten([i \in 1..Len(entry.policy) |-> ToLeBytes(entry.policy[i], 2)])

\* GameRecord::write_to into an empty Vec<u8>: whether it panicked and the
\* bytes in the writer.  TryInto::<u32>::try_into(dim).unwrap() panics on a
\* dimension beyond u32::MAX.  The product overflowing usize panics in a
\* build with overflow checks; no record here brings that about.
WriteTo(header, entries) ==
    LET policy_dim == UsizeProduct(header.action_space_dimensions,
                                   [overflow |-> FALSE, value |-> Usize(1)])
        dims == header.action_space_dimensions
        head == ToLeBytes(header.move_count, 4) \o I8ToLeBytes(header.outcome)
                  \o ToLeBytes(Len(dims), 4)
    IN  IF policy_dim.overflow
        THEN [valid |-> TRUE, panic |-> TRUE, bytes |-> <<>>]
        ELSE IF \E i \in 1..Len(dims) : dims[i].hi # 0
        THEN [valid |-> TRUE, panic |-> TRUE, bytes |-> head]
        ELSE IF \E i \in 1..Len(entries) :
                   Usize(Len(entries[i].policy)) # policy_dim.value
        THEN [valid |-> TRUE, panic |-> TRUE, bytes |-> head]
        ELSE [valid |-> TRUE, panic |-> FALSE,
              bytes |-> head
                  \o Flatten([i \in 1..Len(dims) |-> ToLeBytes(dims[i].lo, 4)])
                  \o ToLeBytes(Len(entries), 4)
                  \o Flatten([i \in 1..Len(entries) |-> EntryBytes(entries[i])])]

\* read_exact of n bytes at a position of the stream
ReadExact(bytes, pos, n) ==
    IF pos + n - 1 <= Len(bytes)
    THEN [ok |-> TRUE, buf |-> SubSeq(bytes, pos, pos + n - 1), pos |-> pos + n]
    ELSE [ok |-> FALSE, buf |-> <<>>, pos |-> pos]

\* the loops of read_from: `remaining` reads of n bytes each, the values
\* read so far in acc
RECURSIVE ReadNumbers(_, _, _, _, _)
ReadNumbers(bytes, pos, n, remaining, acc) ==
    IF remaining = 0 THEN [ok |-> TRUE, pos |-> pos, values |-> acc]
    ELSE LET chunk == ReadExact(bytes, pos, n)
         IN  IF ~chunk.ok THEN [ok |-> FALSE, pos |-> pos, values |-> acc]
             ELSE ReadNumbers(bytes, chunk.pos, n, remaining - 1,
                              Append(acc, FromLeBytes(chunk.buf)))

RECURSIVE ReadEntries(_, _, _, _, _)
ReadEntries(bytes, pos, policy_dim, remaining, acc) ==
    IF remaining = 0 THEN [ok |-> TRUE, pos |-> pos, values |-> acc]
    ELSE LET chosen_move == ReadExact(bytes, pos, 4)
             evaluation == ReadExact(bytes, chosen_move.pos, 8)
             policy == ReadNumbers(bytes, evaluation.pos, 2, policy_dim, <<>>)
         IN  IF ~chosen_move.ok \/ ~evaluation.ok \/ ~policy.ok
             THEN [ok |-> FALSE, pos |-> pos, values |-> acc]
             ELSE ReadEntries(bytes, policy.pos, policy_dim, remaining - 1,
                              Append(acc, [policy |-> policy.values,
                                           chosen_move |-> FromLeBytes(chosen_move.buf),
                                           evaluation |-> evaluation.buf]))

\* GameRecord::read_from on a byte stream
ReadFrom(bytes) ==
    LET move_count == ReadExact(bytes, 1, 4)
        outcome == ReadExact(bytes, move_count.pos, 1)
        dims_count == ReadExact(bytes, outcome.pos, 4)
        dims == ReadNumbers(bytes, dims_count.pos, 4, FromLeBytes(dims_count.buf), <<>>)
        entries_count == ReadExact(bytes, dims.pos, 4)
        entries == ReadEntries(bytes, entries_count.pos, U32Product(dims.values),
                               FromLeBytes(entries_count.buf), <<>>)
        NotRead == [valid |-> TRUE, ok |-> FALSE, header |-> NoRecord.header,
                    entries |-> <<>>]
    IN  IF ~move_count.ok \/ ~outcome.ok \/ ~dims_count.ok THEN NotRead
        ELSE IF ~dims.ok THEN NotRead
        ELSE IF ~entries_count.ok THEN NotRead
        ELSE IF ~entries.ok THEN NotRead
        ELSE [valid |-> TRUE, ok |-> TRUE,
              header |-> [move_count |-> FromLeBytes(move_count.buf),
                          outcome |-> I8FromLeBytes(outcome.buf),
                          action_space_dimensions |->
                              [i \in 1..Len(dims.values) |-> Usize(dims.values[i])]],
              entries |-> entries.values]

\* the headers of the records; the last action space has a dimension of
\* 2^32, beyond u32::MAX
GameRecordHeaders ==
    [move_count : {3, 70000}, outcome : {-128, 1},
     action_space_dimensions :
        {<<Usize(2), Usize(3)>>, <<Usize(1)>>, <<Usize(2), Usize(1), Usize(2)>>,
         <<Usize(3), Usize(0)>>, <<[hi |-> 1, lo |-> 0], Usize(0)>>}]

\* the entries whose policy has one count per action of the header
GameRecordEntries(header) ==
    LET policy_dim == UsizeProduct(header.action_space_dimensions,
                                   [overflow |-> FALSE, value |-> Usize(1)]).value.lo
    IN  {[policy |-> [i \in 1..policy_dim |-> first + i],
          chosen_move |-> chosen_move, evaluation |-> evaluation] :
            first \in {0, 65529}, chosen_move \in {1, 70000},
            evaluation \in {F64.half, F64.nan}}

\* no GameRecord yet
InitRecord ==
    /\ flags = BehaviourDefault
    /\ rng \in Seeds
    /\ capacity = NODEPOOL_SIZE
    /\ root = <<>>
    /\ nodes = <<>>
    /\ rollouts = 0
    /\ phase = "idle"
    /\ results = NoResults
    /\ last = NoIteration
    /\ twin = NoTwin
    /\ stdin_rx = NoChannel
    /\ earlier = "idle"
    /\ playout = NoPlayout
    /\ config = NoConfig
    /\ record = NoRecord
    /\ game = NoGame

\* GameRecord::new
GameRecordNew(header) ==
    /\ ~record.valid
    /\ record' = [NoRecord EXCEPT !.valid = TRUE, !.header = header]
    /\ UNCHANGED <<flags, rng, capacity, game, playout, config, stdin_rx, earlier, root,
                   nodes, rollouts, phase, results, last, twin>>

\* GameRecord::add_entry
AddEntry(entry) ==
    /\ record.valid
    /\ ~record.written.valid
    /\ Len(record.entries) < MaxEntries
    /\ record' = [record EXCEPT !.entries = Append(@, entry)]
    /\ UNCHANGED <<flags, rng, capacity, game, playout, config, stdin_rx, earlier, root,
                   nodes, rollouts, phase, results, last, twin>>

\* record.write_to(&mut bytes) on an empty Vec<u8>
WriteRecord ==
    /\ record.valid
    /\ ~record.written.valid
    /\ record' = [record EXCEPT !.written = WriteTo(record.header, record.entries)]
    /\ UNCHANGED <<flags, rng, capacity, game, playout, config, stdin_rx, earlier, root,
                   nodes, rollouts, phase, results, last, twin>>

\* GameRecord::read_from(&bytes[..]) on the bytes written
ReadRecord ==
    /\ record.valid
    /\ record.written.valid
    /\ ~record.written.panic
    /\ ~record.read.valid
    /\ record' = [record EXCEPT !.read = ReadFrom(record.written.bytes)]
    /\ UNCHANGED <<flags, rng, capacity, game, playout, config, stdin_rx, earlier, root,
                   nodes, rollouts, phase, results, last, twin>>

NextRecord ==
    \/ \E header \in GameRecordHeaders : GameRecordNew(header)
    \/ \E entry \in GameRecordEntries(record.header) : AddEntry(entry)
    \/ WriteRecord
    \/ ReadRecord

SpecRecord == InitRecord /\ [][NextRecord]_vars

(***************************************************************************)
(* The games on their own.  TicTacToe of games/tictactoe.rs keeps its move *)
(* buffer in an array of nine moves; that of tictactoe.rs keeps it in a    *)
(* Vec.  The two files agree on turn, evaluate, is_terminal, push and the  *)
(* loop of generate_moves.  Connect4 is that of connectfour.rs.            *)
(***************************************************************************)
\* TTTMoveBuf::push of games/tictactoe.rs: data[n_moves] = m, n_moves += 1
TTTMoveBufPush(buffer, m) ==
    [buffer EXCEPT !.data[buffer.n_moves + 1] = m, !.n_moves = @ + 1]

\* TTTMoveBuf::iter of games/tictactoe.rs: self.data.iter(), the whole array
TTTMoveBufIter(buffer) == buffer.data

\* TTTMoveBuf::len of games/tictactoe.rs: self.data.len()
TTTMoveBufLen(buffer) == Len(buffer.data)

\* TicTacToe::generate_moves: bb holds the empty squares; while bb # 0 the
\* lowest square of bb is pushed on the buffer and cleared from bb
RECURSIVE GenerateMovesInto(_, _)
GenerateMovesInto(bb, buffer) ==
    IF bb = {} THEN buffer
    ELSE LET lowest == CHOOSE s \in bb : \A r \in bb : s <= r
         IN GenerateMovesInto(bb \ {lowest}, TTTMoveBufPush(buffer, lowest))

\* Connect4::filled: board[0][row] is indexed first and panics when row is
\* not below ROWS
Filled(state, row, col) ==
    IF row \notin 0..(ROWS - 1)
    THEN [panic |-> TRUE, value |-> FALSE]
    ELSE [panic |-> FALSE,
          value |-> col \in state.board[0][row] \/ col \in state.board[1][row]]

\* Connect4::push on a column whose top square (row 0) is not filled: row
\* descends from ROWS while the square below it is filled, and the disc of
\* the side to move goes to row - 1
Connect4Push(state, m) ==
    LET row == CHOOSE r \in 1..ROWS :
                   /\ \A below \in r..(ROWS - 1) : Filled(state, below, m).value
                   /\ ~Filled(state, r - 1, m).value
    IN [board |-> [state.board EXCEPT ![state.moves % 2][row - 1] = @ \cup {m}],
        moves |-> state.moves + 1]

\* Connect4::pop: [panic, state].  The first statement asserts
\* self.filled(ROWS, m.0); after it moves is decremented, row ascends from 0
\* to the first filled square of the column, and that square is cleared on
\* the board of the side that moved.
Connect4Pop(state, m) ==
    LET asserted == Filled(state, ROWS, m)
        moves == state.moves - 1
        filled_rows == {r \in 0..(ROWS - 1) : Filled(state, r, m).value}
        row == CHOOSE r \in filled_rows : \A s \in filled_rows : r <= s
    IN IF asserted.panic \/ ~asserted.value \/ state.moves = 0 \/ filled_rows = {}
       THEN [panic |-> TRUE, state |-> state]
       ELSE [panic |-> FALSE,
             state |-> [board |-> [state.board EXCEPT ![moves % 2][row] = @ \ {m}],
                        moves |-> moves]]

\* the columns the discs of the model are pushed on
C4Columns == {0, 3, COLS - 1}

\* TicTacToe::new() or Connect4::new()
InitGame ==
    /\ flags = BehaviourDefault
    /\ rng \in Seeds
    /\ capacity = NODEPOOL_SIZE
    /\ root = <<>>
    /\ nodes = <<>>
    /\ rollouts = 0
    /\ phase = "idle"
    /\ results = NoResults
    /\ last = NoIteration
    /\ twin = NoTwin
    /\ stdin_rx = NoChannel
    /\ earlier = "idle"
    /\ playout = NoPlayout
    /\ config = NoConfig
    /\ record = NoRecord
    /\ game \in {[NoGame EXCEPT !.kind = kind] : kind \in {"tictactoe", "connect4"}}

\* TicTacToe::push(m) of a legal move on a state that is not terminal
TicTacToePush(m) ==
    /\ game.kind = "tictactoe"
    /\ ~IsTerminal(game.ttt)
    /\ m \in Squares \ (game.ttt.x \cup game.ttt.o)
    /\ game' = [game EXCEPT !.ttt = Push(@, m), !.generated = NoGame.generated]
    /\ UNCHANGED <<flags, rng, capacity, playout, config, record, stdin_rx, earlier,
                   root, nodes, rollouts, phase, results, last, twin>>

\* generate_moves(&mut buffer) on a buffer just built by default(), for the
\* array buffer and for the Vec buffer
TicTacToeGenerateMoves ==
    /\ game.kind = "tictactoe"
    /\ ~game.generated.valid
    /\ game' = [game EXCEPT !.generated =
                  [valid |-> TRUE,
                   buffer |-> GenerateMovesInto(Squares \ (game.ttt.x \cup game.ttt.o),
                                                TTTMoveBufDefault),
                   vec |-> GenerateMoves(game.ttt)]]
    /\ UNCHANGED <<flags, rng, capacity, playout, config, record, stdin_rx, earlier,
                   root, nodes, rollouts, phase, results, last, twin>>

\* Connect4::push(m) on a column that is not full
Connect4PushMove(m) ==
    /\ game.kind = "connect4"
    /\ ~game.popped.panic
    /\ game.connect4.moves < MaxC4Moves
    /\ ~Filled(game.connect4, 0, m).value
    /\ game' = [game EXCEPT !.connect4 = Connect4Push(@, m),
                            !.pushed = [valid |-> TRUE, m |-> m,
                                        before |-> game.connect4],
                            !.popped = NoGame.popped]
    /\ UNCHANGED <<flags, rng, capacity, playout, config, record, stdin_rx, earlier,
                   root, nodes, rollouts, phase, results, last, twin>>

\* Connect4::pop(m) straight after push(m)
Connect4PopMove ==
    /\ game.kind = "connect4"
    /\ game.pushed.valid
    /\ ~game.popped.valid
    /\ LET outcome == Connect4Pop(game.connect4, game.pushed.m)
       IN game' = [game EXCEPT !.connect4 = outcome.state,
                               !.popped = [valid |-> TRUE, panic |-> outcome.panic]]
    /\ UNCHANGED <<flags, rng, capacity, playout, config, record, stdin_rx, earlier,
                   root, nodes, rollouts, phase, results, last, twin>>

NextGame ==
    \/ \E m \in Squares : TicTacToePush(m)
    \/ TicTacToeGenerateMoves
    \/ \E m \in C4Columns : Connect4PushMove(m)
    \/ Connect4PopMove

SpecGame == InitGame /\ [][NextGame]_vars

(***************************************************************************)
(* Properties of the search.  An iteration boundary is any state with      *)
(* phase = "searching"; the loop has exited in the states with             *)
(* phase = "done".                                                         *)
(***************************************************************************)
InSearch == phase \in {"searching", "done"}

RECURSIVE SumOver(_, _)
SumOver(f, S) == IF S = {} THEN 0
                 ELSE LET e == CHOOSE e \in S : TRUE
                      IN f[e] + SumOver(f, S \ {e})

\* the sum of the visits of the children of nodes[i]
ChildVisits(i) == SumOver([c \in Children(nodes[i]) |-> nodes[c].visits],
                          Children(nodes[i]))

\* the sum of the entries of a sequence
SeqSum(seq) == SumOver(seq, DOMAIN seq)

\* C1: at every iteration boundary of a search and when the loop has exited,
\* the root's visits equals the tree's rollouts counter, the number of
\* iterations run so far.
C1_RootVisitsEqualRollouts ==
    InSearch => nodes[ROOT_IDX].visits = rollouts

C1_Witness ==
    /\ phase = "done"
    /\ rollouts >= 3
    /\ nodes[ROOT_IDX].visits = rollouts

\* C2: with Limit::Rollouts(n), n >= 1, root_parallelism 1 and a non-terminal
\* root, the visit vector search returns sums to exactly n.
C2_DistributionSumsToLimit ==
    (/\ phase = "done"
     /\ flags.limit.kind = "Rollouts"
     /\ flags.limit.n >= 1
     /\ flags.root_parallelism_count = 1
     /\ ~IsTerminal(root[1]))
    => /\ Len(results.rollout_distribution) = Len(GenerateMoves(root[1]))
       /\ SeqSum(results.rollout_distribution) = flags.limit.n

C2_Witness ==
    /\ phase = "done"
    /\ flags.limit.kind = "Rollouts"
    /\ flags.limit.n >= 3
    /\ ~IsTerminal(root[1])
    /\ \E k \in DOMAIN results.rollout_distribution :
           results.rollout_distribution[k] >= 2
    /\ SeqSum(results.rollout_distribution) = flags.limit.n

\* C3: at every iteration boundary every node's visits is at least the sum
\* of the visits of its children.
C3_ParentVisitsCoverChildren ==
    InSearch => \A i \in DOMAIN nodes : nodes[i].visits >= ChildVisits(i)

C3_Witness ==
    /\ phase = "searching"
    /\ \E i \in DOMAIN nodes :
          /\ i # ROOT_IDX
          /\ HasChildren(nodes[i])
          /\ ChildVisits(i) >= 1
          /\ nodes[i].visits > ChildVisits(i)

\* C4 as claimed: at every iteration boundary every node of the arena,
\* terminal ones included, has visits - (sum of its children's visits)
\* in {0, 1}.
C4_Original ==
    InSearch => \A i \in DOMAIN nodes :
                    nodes[i].visits - ChildVisits(i) \in {0, 1}

\* C4 amended: at every iteration boundary every node of the arena whose
\* state is not terminal has visits - (sum of its children's visits) in
\* {0, 1}; a terminal node is simulated again each time Select reaches it.
C4_NonTerminalVisitsBalance ==
    InSearch => \A i \in DOMAIN nodes :
                    ~IsTerminal(StateOf(nodes, root[1], i))
                    => nodes[i].visits - ChildVisits(i) \in {0, 1}

C4_Witness ==
    /\ phase = "searching"
    /\ \E i, j, k \in DOMAIN nodes :
          /\ ~IsTerminal(StateOf(nodes, root[1], i))
          /\ HasChildren(nodes[i])
          /\ nodes[i].visits = ChildVisits(i) + 1
          /\ ~IsTerminal(StateOf(nodes, root[1], j))
          /\ nodes[j].visits >= 2
          /\ nodes[j].visits = ChildVisits(j)
          /\ IsTerminal(StateOf(nodes, root[1], k))
          /\ nodes[k].visits >= 2

C6_WinRateInUnitInterval ==
    phase = "done" =>
        /\ results.win_rate = WinRate(nodes[ROOT_IDX])
        /\ 0 <= results.win_rate.num
        /\ results.win_rate.num <= results.win_rate.den

\* the fraction (q + 1) / 2
HalfOfQPlusOne(q) == [num |-> (q + 1) * WIN_SCORE, den |-> 2 * WIN_SCORE]

SameFraction(a, b) == a.num * b.den = b.num * a.den

\* C8: a search whose root state is already terminal does not fail; it
\* returns a SearchResults in which no node other than the root has any
\* visit and win_rate equals (evaluate(root) + 1) / 2.  Stated for the
\* searches that run at least one iteration, Limit::Rollouts(n) with n >= 1.
C8_TerminalRootReturns ==
    (/\ root # <<>>
     /\ IsTerminal(root[1])
     /\ flags.limit.kind = "Rollouts"
     /\ flags.limit.n >= 1) =>
        /\ phase # "panicked"
        /\ phase = "done" =>
              /\ \A i \in DOMAIN nodes : i # ROOT_IDX => nodes[i].visits = 0
              /\ results.rollouts >= 1 =>
                    SameFraction(results.win_rate, HalfOfQPlusOne(Evaluate(root[1])))

\* C9: on entry to Simulate the immediate-loss short-circuit fires exactly
\* when evaluate(state) equals minus the side to move at the root state of
\* the current search; when it fires the parent of the simulated node holds
\* the sentinel and the evaluation is returned as q.  Stated for the
\* searches of a non-terminal root, with either side to move.
C9_ShortCircuitFollowsRootSide ==
    (InSearch /\ last.valid /\ ~IsTerminal(root[1])) =>
        /\ last.fired <=> (last.status = -Turn(root[1]))
        /\ last.fired =>
              /\ nodes[nodes[last.node_to_explore].parent].value = NInfF32
              /\ last.q = last.status

\* the siblings of node i: the other children of its parent
Siblings(i) == Children(nodes[nodes[i].parent]) \ {i}

HoldsSentinel(i) == nodes[i].value = NInfF32

\* C10 as claimed: once the immediate-loss short-circuit has written the
\* sentinel into a node, Select never descends into that node again in any
\* later iteration of the same search.
C10_Original ==
    [][rollouts' = rollouts + 1 =>
          \A k \in DOMAIN last'.path : ~HoldsSentinel(last'.path[k])]_vars

\* C10 amended: once the immediate-loss short-circuit has written the
\* sentinel into a node, Select descends into that node in a later iteration
\* of the same search only if every sibling of the node holds the sentinel
\* too.
C10_SentinelAvoidedWhileSiblingWithout ==
    [][rollouts' = rollouts + 1 =>
          \A k \in DOMAIN last'.path :
              HoldsSentinel(last'.path[k]) =>
                  \A s \in Siblings(last'.path[k]) : HoldsSentinel(s)]_vars

\* an iteration has descended past a child that held the sentinel before it:
\* the short-circuit did not fire in the iteration, and a sibling of the
\* first node descended into holds the sentinel
C10_Witness ==
    /\ phase = "searching"
    /\ last.valid
    /\ ~last.fired
    /\ Len(last.path) >= 1
    /\ nodes[ROOT_IDX].value # NInfF32
    /\ ~HoldsSentinel(last.path[1])
    /\ \E s \in Siblings(last.path[1]) : HoldsSentinel(s) /\ nodes[s].n_children > 0

\* C7: two searches with the same rng seed, the same Behaviour and the same
\* root state produce identical SearchResults: the same visit vector, chosen
\* child index, new state, rollouts and win rate.
C7_Determinism ==
    (/\ phase = "done"
     /\ twin.phase = "done"
     /\ twin.rng = rng
     /\ twin.root = root)
    => twin.results = results

\* C11: with Limit::Rollouts(n) the iteration counter never exceeds n; the
\* limit is checked before each iteration, which starts only while the
\* counter is below n; the loop exits only with the counter at n, so that a
\* search that returns has run exactly n iterations; and the search
\* terminates: every step that stays in the loop brings the counter one
\* closer to n (a fatal error aborts the search before that), every rollout
\* of the game being finite.
C11_RolloutsLimitIsHardStop ==
    /\ []((flags.limit.kind = "Rollouts" /\ phase # "idle")
             => rollouts <= flags.limit.n)
    /\ []((flags.limit.kind = "Rollouts" /\ phase = "done")
             => (rollouts = flags.limit.n /\ results.rollouts = flags.limit.n))
    /\ [][(flags.limit.kind = "Rollouts" /\ phase = "searching")
             => /\ rollouts' = rollouts + 1 => rollouts < flags.limit.n
                /\ (phase' # "searching" /\ UNCHANGED <<nodes, rollouts, last>>)
                      => rollouts = flags.limit.n]_vars
    /\ [][(flags.limit.kind = "Rollouts" /\ phase = "searching"
                                          /\ phase' = "searching")
             => flags.limit.n - rollouts' = flags.limit.n - rollouts - 1]_vars

C11_Witness ==
    /\ phase = "done"
    /\ flags.limit.kind = "Rollouts"
    /\ flags.limit.n >= 3
    /\ rollouts = flags.limit.n
    /\ ArenaLen(nodes) > 1

C13_ParallelTreesSummed ==
    (/\ phase \in {"done", "panicked"}
     /\ flags.root_parallelism_count > 1
     /\ flags.limit.kind = "Rollouts"
     /\ flags.limit.n >= 1
     /\ ~IsTerminal(root[1]))
    => /\ phase = "done"
       /\ results.rollouts = flags.root_parallelism_count * flags.limit.n
       /\ SeqSum(results.rollout_distribution)
             = flags.root_parallelism_count * flags.limit.n

\* C14: for every search that returns in inference mode, new_node_idx lies
\* inside the root's child range, the child at new_node_idx has at least the
\* visits of every other root child, new_node is the root state with that
\* child's inbound_edge pushed, rollout_distribution[i] is the visits of the
\* i-th root child, and rollouts is the number of iterations run.
C14_InferenceResults ==
    (phase = "done" /\ ~flags.training) =>
        /\ results.new_node_idx \in Children(nodes[ROOT_IDX])
        /\ \A c \in Children(nodes[ROOT_IDX]) :
              nodes[c].visits <= nodes[results.new_node_idx].visits
        /\ results.new_node
              = Push(root[1], nodes[results.new_node_idx].inbound_edge)
        /\ Len(results.rollout_distribution) = nodes[ROOT_IDX].n_children
        /\ \A i \in 1..nodes[ROOT_IDX].n_children :
              results.rollout_distribution[i]
                = nodes[nodes[ROOT_IDX].first_child + i - 1].visits
        /\ results.rollouts = rollouts
        /\ results.rollouts = nodes[ROOT_IDX].visits

\* a search returned in inference mode with root children of unequal visits,
\* the chosen child not being the last one
C14_Witness ==
    /\ phase = "done"
    /\ ~flags.training
    /\ results.rollouts >= 3
    /\ results.new_node_idx \in Children(nodes[ROOT_IDX])
    /\ results.new_node_idx < nodes[ROOT_IDX].first_child + nodes[ROOT_IDX].n_children - 1
    /\ \E c \in Children(nodes[ROOT_IDX]) :
          nodes[c].visits < nodes[results.new_node_idx].visits

\* C15: every search call on an engine, after the creation of the engine,
\* after a call that returned or after a call that a fatal error aborted,
\* begins its first iteration from an arena of exactly one node, the root at
\* index 0 with no parent, visits 0, value 0, perspective minus the side to
\* move at the root and an empty child range, and with the iteration counter
\* at 0.  The states before the first iteration of a call are those with
\* phase = "searching" in which no iteration has reported yet.
C15_SearchBeginsFromRootAlone ==
    (phase = "searching" /\ ~last.valid) =>
        /\ DOMAIN nodes = {ROOT_IDX}
        /\ nodes[ROOT_IDX].parent = None
        /\ nodes[ROOT_IDX].visits = 0
        /\ nodes[ROOT_IDX].value = 0
        /\ nodes[ROOT_IDX].perspective = -Turn(root[1])
        /\ Children(nodes[ROOT_IDX]) = {}
        /\ rollouts = 0

\* a call is about to begin its first iteration on an engine whose earlier
\* call a fatal error aborted
C15_Witness ==
    /\ phase = "searching"
    /\ ~last.valid
    /\ earlier = "panicked"
    /\ DOMAIN nodes = {ROOT_IDX}
    /\ rollouts = 0

\* a call is about to begin its first iteration on an engine whose earlier
\* call returned
C15_WitnessAfterReturn ==
    /\ phase = "searching"
    /\ ~last.valid
    /\ earlier = "done"
    /\ DOMAIN nodes = {ROOT_IDX}
    /\ rollouts = 0

\* C16: the arena length never exceeds the capacity the arena was created
\* with; expand on a node without children fails with the fatal "SearchTree
\* full" exactly when the arena length plus the number of legal moves at the
\* state exceeds the capacity; and no call of expand evicts or overwrites a
\* node: every node stays at its index as it was, but for the child range of
\* the expanded node.
C16_CapacityIsNeverExceeded ==
    /\ [](ArenaLen(nodes) <= capacity)
    /\ []((phase \in {"arena", "panicked"} /\ last.valid /\ ~last.had_children)
            => /\ (last.error = "SearchTree full")
                     <=> (last.start + last.count > capacity)
               /\ (phase = "panicked") <=> (last.error = "SearchTree full"))
    /\ [][(phase = "arena" /\ last'.valid /\ last' # last)
            => \A i \in DOMAIN nodes :
                  /\ i \in DOMAIN nodes'
                  /\ nodes'[i] = IF i = last'.idx /\ last'.error = "none"
                                 THEN [nodes[i] EXCEPT !.first_child = last'.start,
                                                       !.n_children = last'.count]
                                 ELSE nodes[i]]_vars

\* expand has failed on a full arena after pushing some of the children
C16_Witness ==
    /\ phase = "panicked"
    /\ last.valid
    /\ last.error = "SearchTree full"
    /\ last.start >= 3
    /\ last.start < capacity
    /\ ArenaLen(nodes) = capacity

\* the evaluations of the successors of a board that are not zero
DecisiveEvaluations(board) ==
    {Evaluate(Push(board, m)) : m \in Squares \ (board.x \cup board.o)} \ {0}

\* C17: a decisive rollout (Decisive, or DecisiveCutoff with moves >= 1)
\* entered on a non-terminal state from which some legal move leads to a
\* successor whose evaluation is not zero returns the evaluation of such a
\* successor.
C17_DecisiveTakesTheDecidingMove ==
    (/\ playout.valid
     /\ \/ flags.rollout_policy.kind = "Decisive"
        \/ flags.rollout_policy.kind = "DecisiveCutoff"
              /\ flags.rollout_policy.moves >= 1
     /\ ~IsTerminal(playout.rollout_board)
     /\ DecisiveEvaluations(playout.rollout_board) # {})
    => /\ ~playout.outcome.q.nan
       /\ \E e \in DecisiveEvaluations(playout.rollout_board) :
             playout.outcome.q = F32From(e)

\* C18: for every rollout policy, a rollout entered on a terminal state
\* returns exactly evaluate(state) and calls neither generate_moves nor
\* push_random.
C18_TerminalEntryReturnsEvaluation ==
    (playout.valid /\ IsTerminal(playout.rollout_board)) =>
        /\ ~playout.outcome.panic
        /\ playout.outcome.q = F32From(Evaluate(playout.rollout_board))
        /\ playout.outcome.pushes = 0
        /\ playout.outcome.movegens = 0

\* C19: a cutoff rollout with parameter k applies at most k moves; if the
\* state is not terminal after k moves it returns 0, and if a terminal state
\* is reached after at most k moves it returns evaluate of that state.
C19_CutoffAfterKMoves ==
    (playout.valid
       /\ flags.rollout_policy.kind \in {"RandomCutoff", "DecisiveCutoff"}) =>
        /\ playout.outcome.pushes <= flags.rollout_policy.moves
        /\ IsTerminal(playout.outcome.board)
              => playout.outcome.q = F32From(Evaluate(playout.outcome.board))
        /\ ~IsTerminal(playout.outcome.board)
              => /\ playout.outcome.q = Q(0)
                 /\ playout.outcome.pushes = flags.rollout_policy.moves

\* a cutoff rollout has applied its k >= 2 moves and given up
C19_Witness ==
    /\ playout.valid
    /\ flags.rollout_policy.kind = "DecisiveCutoff"
    /\ flags.rollout_policy.moves >= 2
    /\ playout.outcome.pushes = flags.rollout_policy.moves
    /\ ~IsTerminal(playout.outcome.board)
    /\ playout.outcome.q = Q(0)

\* a cutoff rollout has reached a decided terminal state within its k moves
C19_WitnessTerminal ==
    /\ playout.valid
    /\ flags.rollout_policy.kind = "RandomCutoff"
    /\ playout.outcome.pushes >= 1
    /\ IsTerminal(playout.outcome.board)
    /\ playout.outcome.q = F32From(-1)

\* C20: every q the playout of simulate hands to backpropagation lies in
\* [-1, 1], for every rollout policy configuration accepts, so that the
\* range assertion of Node::update holds.
C20_QWithinUnitRange ==
    playout.valid =>
        /\ ~playout.outcome.panic
        /\ ~playout.outcome.q.nan
        /\ -QScale <= playout.outcome.q.value
        /\ playout.outcome.q.value <= QScale

\* the four rollout policies the MetaAggregated arm of simulate has a
\* function for
BasePolicies == {"Random", "Decisive", "RandomQualityScaled", "DecisiveQualityScaled"}

\* C21: no engine whose Behaviour holds a meta-aggregated policy with a
\* cutoff or meta-aggregated inner policy reaches the playout of simulate,
\* so that no playout fails on an unsupported inner policy.
C21_UnsupportedInnerNeverReachesSimulate ==
    (playout.valid /\ flags.rollout_policy.kind = "MetaAggregated") =>
        /\ flags.rollout_policy.policy \in BasePolicies
        /\ ~playout.outcome.panic

\* the limit values and rollout policy values of the grammar
GrammarLimits ==
    {<<kind, ":", numeral[1]>> : kind \in {"rollouts", "time"}, numeral \in Numerals}

GrammarPolicies ==
    LET base == {<<"random">>, <<"decisive">>, <<"random_quality_scaled">>,
                 <<"decisive_quality_scaled">>}
        cutoff == {<<name, ".", numeral[1]>> :
                      name \in {"random_cutoff", "decisive_cutoff"},
                      numeral \in Numerals}
    IN  base \cup cutoff
          \cup {<<"meta_aggregated", ".">> \o inner \o <<".", numeral[1]>> :
                   inner \in base \cup cutoff, numeral \in Numerals}

Grammar ==
    {<<"limit", "=">> \o limit \o <<",", "rollout_policy", "=">> \o policy :
        limit \in GrammarLimits, policy \in GrammarPolicies}

\* C22: Behaviour parsing accepts only the grammar: a string that is not
\* limit=<rollouts:n or time:n>,rollout_policy=<one of the seven policy
\* forms> yields an error and no Behaviour.
C22_OnlyTheGrammarParses ==
    (config.valid /\ config.input \notin Grammar) => ~config.ok

\* C23: for every record in which each entry's policy length equals the
\* product of the header's action_space_dimensions, write_to succeeds, and
\* read_from on the bytes written succeeds and yields a record equal to the
\* original.
C23_GameRecordRoundTrips ==
    /\ record.written.valid => ~record.written.panic
    /\ record.read.valid =>
          /\ record.read.ok
          /\ GameRecordEq(record.read, record)

Magnitude(value) == IF value < 0 THEN -value ELSE value

\* C24: a quality-scaled rollout that ended with outcome q after playing
\* move_count moves returns q * exp(-0.04 * move_count); the value returned
\* has magnitude at most 1, and a rollout with the same outcome after fewer
\* moves returns a value of strictly greater magnitude.
C24_QualityScaledBoundedAndDecreasing ==
    (/\ playout.valid
     /\ flags.rollout_policy.kind \in {"RandomQualityScaled", "DecisiveQualityScaled"})
    => LET q == Evaluate(playout.outcome.board)
           move_count == playout.outcome.pushes
       IN  /\ ~playout.outcome.q.nan
           /\ Magnitude(playout.outcome.q.value) <= QScale
           /\ playout.outcome.q = Scale(q, move_count)
           /\ \A fewer \in 0..(move_count - 1) :
                 Magnitude(Scale(q, fewer).value) > Magnitude(playout.outcome.q.value)

\* C25: in every iteration the state simulate runs on (immediate-loss test
\* and rollout) is the state of the simulation-start node: the root state
\* with the inbound edges on the path from the root to that node applied in
\* order, the edge of a freshly expanded node's random child included.
C25_SimulateRunsOnStartNodeState ==
    (InSearch /\ last.valid) =>
        last.rollout_board = StateOf(nodes, root[1], last.node_to_explore)

\* the nodes on the parent chain from a node up to the root
RECURSIVE ParentChain(_, _)
ParentChain(tree, idx) ==
    IF tree[idx].parent = None THEN {idx}
    ELSE {idx} \cup ParentChain(tree, tree[idx].parent)

\* visits and value of a node when backpropagation begins: a node expansion
\* has just pushed has neither, and the parent of the simulation start holds
\* the sentinel if the immediate-loss test fired
VisitsBefore(i) == IF i \in DOMAIN nodes THEN nodes[i].visits ELSE 0

ValueBefore(i) ==
    IF last'.fired /\ i = nodes'[last'.node_to_explore].parent THEN NInfF32
    ELSE IF i \in DOMAIN nodes THEN nodes[i].value ELSE 0

C27_SelectReachesChildlessNode ==
    [][(phase = "searching" /\ last'.valid
          /\ (rollouts' = rollouts + 1 \/ phase' = "panicked")) =>
          LET r == last'.promising_node_idx
              path == last'.path
              Visited(k) == IF k = 0 THEN ROOT_IDX ELSE path[k]
          IN  /\ r \in DOMAIN nodes
              /\ ~HasChildren(nodes[r])
              /\ r = Visited(Len(path))
              /\ \A k \in 1..Len(path) :
                    /\ HasChildren(nodes[Visited(k - 1)])
                    /\ path[k] \in Children(nodes[Visited(k - 1)])
                    /\ nodes[path[k]].parent = Visited(k - 1)
              /\ last'.state = StateOf(nodes, root[1], r)]_vars

\* Select has descended two levels below the root
C27_Witness ==
    /\ phase = "searching"
    /\ last.valid
    /\ Len(last.path) >= 2
    /\ last.state # root[1]

\* C28: in each iteration, if the state of the node Select reached is not
\* terminal the node is expanded with one child per legal move, in the
\* order of generation, and the simulation start is one of the new
\* children; if the state is terminal nothing is pushed, the node stays
\* childless and the simulation start is the node itself.
C28_ExpandThenStartAtChild ==
    [][(phase = "searching" /\ last'.valid
          /\ (rollouts' = rollouts + 1 \/ phase' = "panicked")) =>
          LET r == last'.promising_node_idx
              state == StateOf(nodes, root[1], r)
              moves == GenerateMoves(state)
              start == ArenaLen(nodes)
          IN  IF ~IsTerminal(state)
              THEN /\ last'.expanded
                   /\ Len(moves) >= 1
                   /\ ArenaLen(nodes') = start + Len(moves)
                   /\ nodes'[r].first_child = start
                   /\ nodes'[r].n_children = Len(moves)
                   /\ \A k \in 1..Len(moves) :
                         /\ nodes'[start + k - 1].parent = r
                         /\ nodes'[start + k - 1].inbound_edge = moves[k]
                   /\ last'.node_to_explore \in start..(start + Len(moves) - 1)
              ELSE /\ ~last'.expanded
                   /\ ArenaLen(nodes') = start
                   /\ ~HasChildren(nodes'[r])
                   /\ last'.node_to_explore = r]_vars

\* a node below the root has been expanded and one of its children is the
\* simulation start
C28_Witness ==
    /\ phase = "searching"
    /\ last.valid
    /\ last.expanded
    /\ Len(last.path) >= 1
    /\ nodes[last.promising_node_idx].n_children >= 2
    /\ last.node_to_explore \in Children(nodes[last.promising_node_idx])

\* a node with a terminal state has been reached and is the simulation start
C28_WitnessTerminal ==
    /\ phase = "searching"
    /\ last.valid
    /\ ~last.expanded
    /\ Len(last.path) >= 1
    /\ IsTerminal(last.state)
    /\ last.node_to_explore = last.promising_node_idx

\* the nodes Select stood on during the descent of the iteration reported
\* in last': the root, then the nodes of the path
Left(k) == IF k = 0 THEN ROOT_IDX ELSE last'.path[k]

SelectionValue(idx, child) ==
    Puct(nodes[idx].visits, nodes[child].value, nodes[child].visits,
         NormalisedPolicy(nodes[idx].n_children))

C31_PerspectiveIsMinusSideToMove ==
    \A i \in DOMAIN nodes :
        /\ nodes[i].perspective \in {1, -1}
        /\ nodes[i].perspective = -Turn(StateOf(nodes, root[1], i))
        /\ nodes[i].parent # None =>
              nodes[i].perspective = Turn(StateOf(nodes, root[1], nodes[i].parent))

\* a search has expanded the root and a child of the root, so that the arena
\* holds nodes of both perspectives two levels below the root
C31_Witness ==
    /\ phase = "searching"
    /\ \E i, j \in DOMAIN nodes :
          /\ nodes[i].parent = ROOT_IDX
          /\ nodes[j].parent = i
          /\ nodes[ROOT_IDX].perspective = -Turn(root[1])
          /\ nodes[i].perspective = Turn(root[1])
          /\ nodes[j].perspective = -Turn(root[1])

\* C32: in every state of the arena, index 0 is the only node without a
\* parent, and the parent index of every other node is strictly smaller than
\* the index of the node.
C32_ParentsAreEarlier ==
    \A i \in DOMAIN nodes :
        /\ (nodes[i].parent = None) <=> (i = ROOT_IDX)
        /\ i # ROOT_IDX => nodes[i].parent \in 0..(i - 1)

\* the arena holds a node whose parent is not the root
C32_Witness ==
    /\ phase = "arena"
    /\ \E i \in DOMAIN nodes : nodes[i].parent # None /\ nodes[i].parent # ROOT_IDX

\* C33: in every state of the arena, the child range of each node
\* [first_child, first_child + n_children) is empty or lies wholly inside
\* [0, arena length): the end of the range is at most nodes.len(), which is
\* what best_child_by_visits asserts.
C33_ChildRangeInsideArena ==
    \A i \in DOMAIN nodes :
        /\ nodes[i].first_child + nodes[i].n_children <= ArenaLen(nodes)
        /\ \/ nodes[i].n_children = 0
           \/ Children(nodes[i]) \subseteq DOMAIN nodes

\* the child range of a node ends at the arena length, and the arena is full
C33_Witness ==
    /\ phase = "arena"
    /\ ArenaLen(nodes) = capacity
    /\ \E i \in DOMAIN nodes :
          /\ HasChildren(nodes[i])
          /\ nodes[i].first_child + nodes[i].n_children = ArenaLen(nodes)

\* C34: during a search the driver calls expand only on a node without
\* children (the node select reaches), so expand's assertion "Node already
\* has children" never fails in a search; and expand called on a node that
\* has children fails with that assertion and leaves the arena as it was,
\* no node appended.
C34_DriverExpandsChildlessNodesOnly ==
    phase = "searching" =>
        /\ LET sel == Select(nodes, ROOT_IDX, root[1], <<>>)
           IN /\ ~HasChildren(nodes[sel.idx])
              /\ ~IsTerminal(sel.state) =>
                    Expand(nodes, capacity, sel.idx, sel.state).error
                        # "Node already has children"
        /\ \A idx \in DOMAIN nodes :
              HasChildren(nodes[idx]) =>
                 LET direct == Expand(nodes, capacity, idx,
                                      StateOf(nodes, root[1], idx))
                 IN /\ ~direct.ok
                    /\ direct.error = "Node already has children"
                    /\ direct.nodes = nodes

\* the search has expanded the root and a child of it: select passes two
\* nodes that have children before it reaches the node the driver expands
C34_Witness ==
    /\ phase = "searching"
    /\ FALSE \in LimitReached(flags.limit, rollouts)
    /\ HasChildren(nodes[ROOT_IDX])
    /\ LET sel == Select(nodes, ROOT_IDX, root[1], <<>>)
       IN /\ Len(sel.path) = 2
          /\ ~IsTerminal(sel.state)

\* C35: in every state of the arena the child ranges of distinct nodes are
\* pairwise disjoint, no child range contains index 0, and every node j but
\* the root lies in the child range of exactly one node, nodes[j].parent.
C35_ChildRangesAndParentsAgree ==
    /\ \A i, k \in DOMAIN nodes :
          i # k => Children(nodes[i]) \cap Children(nodes[k]) = {}
    /\ \A i \in DOMAIN nodes : ROOT_IDX \notin Children(nodes[i])
    /\ \A j \in DOMAIN nodes \ {ROOT_IDX} :
          {i \in DOMAIN nodes : j \in Children(nodes[i])} = {nodes[j].parent}

\* C36: one iteration changes only the child range of the node it expands
\* (at most one), the nodes that expansion appends, and visits and value of
\* the nodes on the parent chain from the simulation-start node to the root;
\* every other node of the arena stays as it was, and no step of a search
\* changes parent, inbound_edge or perspective of a node of the arena.
C36_IterationFrame ==
    [][phase = "searching" =>
          /\ \A i \in DOMAIN nodes :
                /\ i \in DOMAIN nodes'
                /\ nodes'[i].parent = nodes[i].parent
                /\ nodes'[i].inbound_edge = nodes[i].inbound_edge
                /\ nodes'[i].perspective = nodes[i].perspective
          /\ rollouts' = rollouts + 1 =>
                LET appended == DOMAIN nodes' \ DOMAIN nodes
                    chain == ParentChain(nodes', last'.node_to_explore)
                    expanded == {i \in DOMAIN nodes :
                                    \/ nodes'[i].first_child # nodes[i].first_child
                                    \/ nodes'[i].n_children # nodes[i].n_children}
                IN /\ expanded \subseteq {last'.promising_node_idx}
                   /\ expanded # {} <=> last'.expanded
                   /\ appended # {} <=> last'.expanded
                   /\ last'.expanded =>
                         appended = Children(nodes'[last'.promising_node_idx])
                   /\ \A i \in DOMAIN nodes \ chain :
                         /\ nodes'[i].visits = nodes[i].visits
                         /\ nodes'[i].value = nodes[i].value
                   /\ \A i \in DOMAIN nodes \ (chain \cup expanded) :
                         nodes'[i] = nodes[i]]_vars

\* an iteration has expanded a node below the root and backpropagated from
\* one of the new nodes, while the root has a child off the parent chain
\* that has been visited before
C36_Witness ==
    /\ phase = "searching"
    /\ last.valid /\ last.expanded
    /\ last.promising_node_idx # ROOT_IDX
    /\ \E i \in Children(nodes[ROOT_IDX]) :
          /\ i \notin ParentChain(nodes, last.node_to_explore)
          /\ nodes[i].visits > 0

\* C37: a search with Limit::Rollouts(0) runs no iteration, leaves the root
\* without children and does not return a SearchResults; and a search
\* returns a SearchResults only if the root has acquired a child.
C37_NoResultWithoutRootChild ==
    /\ (root # <<>> /\ flags.limit = [kind |-> "Rollouts", n |-> 0]) =>
          /\ rollouts = 0
          /\ ~HasChildren(nodes[ROOT_IDX])
          /\ phase # "done"
          /\ ~results.valid
    /\ results.valid => HasChildren(nodes[ROOT_IDX])

(***************************************************************************)
(* The games.                                                              *)
(***************************************************************************)
\* a sequence of moves holds exactly the empty squares of a board, each
\* once, in ascending order
YieldsEmptySquares(moves, board) ==
    LET empty == Squares \ (board.x \cup board.o)
    IN /\ Len(moves) = Cardinality(empty)
       /\ {moves[i] : i \in 1..Len(moves)} = empty
       /\ \A i, j \in 1..Len(moves) : i < j => moves[i] < moves[j]

\* C38: for TicTacToe, after generate_moves on a buffer just built by
\* default(), buffer.len() is the number of empty squares and buffer.iter()
\* yields exactly the empty squares, each once, in ascending order; for the
\* array buffer of games/tictactoe.rs and for the Vec buffer of tictactoe.rs.
C38_BufferHoldsTheEmptySquares ==
    (game.kind = "tictactoe" /\ game.generated.valid) =>
        /\ TTTMoveBufLen(game.generated.buffer)
              = Cardinality(Squares \ (game.ttt.x \cup game.ttt.o))
        /\ YieldsEmptySquares(TTTMoveBufIter(game.generated.buffer), game.ttt)
        /\ YieldsEmptySquares(game.generated.vec, game.ttt)

\* the eight lines of three squares
ThreeInALine(squares) ==
    \E line \in {{0, 1, 2}, {3, 4, 5}, {6, 7, 8}, {0, 3, 6}, {1, 4, 7}, {2, 5, 8},
                 {0, 4, 8}, {2, 4, 6}} : line \subseteq squares

\* C39: on every TicTacToe state reached from the empty board by pushing
\* legal moves while the state is not terminal, evaluate() is +1 iff the
\* first player has three in a line, -1 iff the second player has, and 0
\* otherwise; is_terminal() holds iff evaluate() # 0 or the nine squares are
\* filled; and turn() alternates with every push, beginning with +1.
C39_EvaluateNamesTheWinner ==
    game.kind = "tictactoe" =>
        LET b == game.ttt
            pushes == Cardinality(b.x) + Cardinality(b.o)
        IN /\ Evaluate(b) \in {-1, 0, 1}
           /\ (Evaluate(b) = 1) <=> ThreeInALine(b.x)
           /\ (Evaluate(b) = -1) <=> ThreeInALine(b.o)
           /\ IsTerminal(b) <=> (Evaluate(b) # 0 \/ b.x \cup b.o = Squares)
           /\ b.x \cap b.o = {}
           /\ Turn(b) = (IF pushes % 2 = 0 THEN 1 ELSE -1)

\* the second player has completed a line with the sixth push
C39_Witness ==
    /\ game.kind = "tictactoe"
    /\ game.ttt.moves = 6
    /\ ThreeInALine(game.ttt.o)
    /\ Evaluate(game.ttt) = -1
    /\ IsTerminal(game.ttt)

\* the nine squares are filled and nobody has a line
C39_WitnessDrawn ==
    /\ game.kind = "tictactoe"
    /\ game.ttt.x \cup game.ttt.o = Squares
    /\ Evaluate(game.ttt) = 0
    /\ IsTerminal(game.ttt)

\* C40: for Connect4, pop(m) straight after push(m) on a state whose column
\* m is not full completes without failure and restores the state before
\* the push, board and move counter.
C40_PopUndoesPush ==
    (game.kind = "connect4" /\ game.pushed.valid /\ game.popped.valid) =>
        /\ ~game.popped.panic
        /\ game.connect4 = game.pushed.before

====
